---- MODULE Spec2Model ----
(***************************************************************************)
(* Peer-assisted media transport of the node dashboard:                    *)
(*   - StreamChannel.broadcastChunk / handleChunkedMedia                   *)
(*     (src/src/services/streaming.ts): fragmentation and reassembly,      *)
(*   - handleWebRTCSignal / handleStreamEvent (src/unnamed/part_001):      *)
(*     the live signaling state machine,                                   *)
(*   - VideoFileBroadcaster / VideoFileViewer                              *)
(*     (src/src/services/video-streaming.ts): the file-chunk exchange.     *)
(*                                                                         *)
(* Byte buffers are kept symbolically: a buffer is a sequence of segments  *)
(* [p, lo, hi], "bytes lo..hi-1 of payload p", adjacent segments merged.   *)
(* Every byte of every payload is thereby distinct, which is the general   *)
(* case of "any byte payload", and slice / concatenation are exact.        *)
(***************************************************************************)
EXTENDS Integers, Sequences, FiniteSets, TLC

VARIABLES
    scenario,       \* which part of the program this behaviour exercises
    \* ---- tag packing (pure functions applied to drawn inputs)
    tagIn, tagPhase, tagPacked, tagOut,
    \* ---- StreamChannel: send path, transport, receive path
    now,            \* Date.now(), in ms relative to the session start
    ticksLeft,      \* how often the clock may still advance
    netMode,        \* transport delivery order: "any" or "fifo"
    dupLeft,        \* duplicate deliveries the transport may still make
    callsLeft,      \* broadcastChunk calls the application may still make
    calls,          \* the broadcastChunk calls made so far: [seq, len], by payload
    sendPhase,      \* "idle" | "sending" | "returned" | "rejected"
    sendData,       \* data.length of the call in progress
    sendSeq,        \* its `sequence` argument (the frame number)
    sendPid,        \* identity of its payload
    sendTotal,      \* totalParts (0 on the single-chunk branch)
    sendI,          \* loop variable i
    sentLog,        \* transmissions made by the current call, in order
    net,            \* events in flight, oldest first
    pendingChunks,  \* StreamChannel.pendingChunks
    dispatched,     \* what the 'mediaChunk' listeners were called with
    loop,           \* the startListening loop: alive (not yet ended), running
                    \* (isRunning), lagged ('lagged' events given to the listeners)
    \* ---- inbound events the transport may still deliver to the handlers below
    evLeft,
    \* ---- live signaling (LiveStreaming page)
    liveChannel,    \* streamChannelRef.current is set
    media,          \* mediaStreamRef: "none" | "live" | "ended" (no live track)
    peerConnections,\* peerConnectionsRef: peer -> handle
    handles,        \* every RTCPeerConnection created, by creation order
    pendingIce,     \* pendingIceCandidatesRef: peer -> array
    arrays,         \* the candidate arrays ever put into pendingIce
    tasks,          \* handleWebRTCSignal invocations suspended at an await
    sigOut,         \* signals handed to channel.broadcastSignal, in order
    recvIce,        \* candidates received from each peer, in order
    iceLeft,        \* local candidates the handles may still produce
    lastSig,        \* the signal last given to handleWebRTCSignal
    leftAt,         \* per peer, the handles made and candidates received when the
                    \* peer last left (NeverLeft before)
    retryOn,        \* the request-offer retry interval is armed
    retryCount,     \* retryCount of handleJoinStream
    retryAttempts,  \* broadcastSignal calls made by the retry interval
    retryError,     \* an error escaped from the retry interval's callback
    session,        \* presence: the presence interval is armed; listening: the
                    \* channel's isRunning; freed: its transport was freed;
                    \* stops: how often the stop routine has run
    \* ---- VideoFileBroadcaster
    bFileSize,      \* file.size
    bChunks,        \* chunks
    bMetadata,      \* metadata
    bPrepared,      \* prepare() has run
    bOut,           \* what was handed to the channel, in order
    bPeerRequests,  \* calls of the onPeerRequest callback
    bLast,          \* the message last given to handleMessage
    bStreaming,     \* isStreaming
    bIndex,         \* currentChunkIndex
    bLoops,         \* suspended startBroadcast / broadcastNext invocations, per stage
    bProgress,      \* the onProgress calls made, in order
    bEmitted,       \* what startBroadcast and broadcastNext handed to the channel
    bPrepLeft,      \* how often prepare() may still be called
    bRunLeft,       \* how often startBroadcast and stopBroadcast may still be called
                    \* (each call also counts as one of the evLeft events)
    bLastCall,      \* the last startBroadcast / stopBroadcast call
    \* ---- VideoFileViewer
    vMetadata,      \* metadata (known = FALSE: null)
    vChunks,        \* chunks: index -> bytes
    vReceived,      \* receivedChunks
    vPending,       \* pendingRequests
    vVideoElement,  \* videoElement is set
    vSrc,           \* videoElement.src is set
    vLastAppended,  \* lastAppendedIndex
    vPeerChunks,    \* peerChunks
    vLoop,          \* the acquisition loop: timer pending, or suspended in a send
    vBatchesLeft,   \* how often the loop's timer may still fire
    vOut,           \* what was handed to the channel, in order
    vCalls,         \* callbacks made: onMetadata, onReady, onProgress
    vAssemblies,    \* the blobs assembleAndPlay made, in order
    vHeldAtMeta,    \* chunks of the file held when metadata was learned (-1: not yet)
    vChunkMsgs,     \* video-chunk messages of peers given to handleChunk
    vOrder,         \* the indices handleChunk stored, in arrival order
    vAsked,         \* the indices whose request is in flight to the peers
    vGone,          \* left: the page's stop routine has destroyed the viewer and its
                    \* channel; sentFreed: the freed channel has accepted a send
    vLast,          \* the message last given to handleMessage
    \* ---- the module's streaming node (streaming.ts module variables)
    wasm,            \* the WASM module is loaded (wasm is not null)
    wasmInitialized, \* module.default() has resolved
    streamingNode,   \* the node the module holds (NoNode: null)
    spawned,         \* how often StreamingNode.spawn was invoked; the k-th makes node k
    callers,         \* each caller's invocation: [op, stage, node]
    cleanupStage,    \* cleanup(): "idle" or suspended in "shutdown"
    cleanupsLeft,    \* cleanup() calls the application may still make
    freedNodes       \* the nodes free() was called on

chanVars == <<now, ticksLeft, netMode, dupLeft, callsLeft, calls, sendPhase, sendData,
              sendSeq, sendPid, sendTotal, sendI, sentLog, net, pendingChunks,
              dispatched, loop>>
tagVars == <<tagIn, tagPhase, tagPacked, tagOut>>
nodeVars == <<wasm, wasmInitialized, streamingNode, spawned, callers, cleanupStage,
              cleanupsLeft, freedNodes>>
sigVars == <<liveChannel, media, peerConnections, handles, pendingIce, arrays, tasks,
             sigOut, recvIce, iceLeft, lastSig, leftAt, retryOn, retryCount,
             retryAttempts, retryError, session>>
retryVars == <<retryOn, retryCount, retryAttempts, retryError>>
\* what only the stop routine changes
stopVars == <<liveChannel, session>>
bcastVars == <<bFileSize, bChunks, bMetadata, bPrepared, bOut, bPeerRequests, bLast,
               bStreaming, bIndex, bLoops, bProgress, bEmitted, bPrepLeft, bRunLeft,
               bLastCall>>
viewVars == <<vMetadata, vChunks, vReceived, vPending, vVideoElement, vSrc,
              vLastAppended, vPeerChunks, vLoop, vBatchesLeft, vOut, vCalls,
              vAssemblies, vHeldAtMeta, vChunkMsgs, vOrder, vAsked, vGone, vLast>>

\* what an action of one component leaves alone
notTag == <<scenario, evLeft, nodeVars, chanVars, sigVars, bcastVars, viewVars>>
notNode == <<scenario, evLeft, tagVars, chanVars, sigVars, bcastVars, viewVars>>
notChan == <<scenario, evLeft, tagVars, nodeVars, sigVars, bcastVars, viewVars>>
notLive == <<scenario, tagVars, nodeVars, chanVars, bcastVars, viewVars>>
notBcast == <<scenario, tagVars, nodeVars, chanVars, sigVars, viewVars>>
notView == <<scenario, tagVars, nodeVars, chanVars, sigVars, bcastVars>>

-----------------------------------------------------------------------------
(* Program constants *)

MAX_CHUNK_SIZE == 56320
TAG_BASE == 10000
PART_BASE == 100
STALE_MS == 5000
VIDEO_CHUNK_SIZE == 65536
RELAY_OFFSET == 100000
REQUEST_BATCH == 5
ANNOUNCE_EVERY == 10
WEBM_MIN_PERCENT == 10
MAX_RETRIES == 10

(* Bounds of the model *)

StartMs == 1000
TickMs == 3000
MaxTicks == 2
MaxDup == 2
MaxCalls == 2
MaxInFlight == 3
FirstFrame == 7
MaxTagFrame == 3
MaxSignals == 3
MaxIceSignals == 4
MaxLocalIce == 1
MaxChunks == 2
MaxViewMsgs == 4
MaxBatches == 2
MaxBcastMsgs == 2
MaxAppEvents == 3
MaxWatchSignals == 2
MaxStopEvents == 3
MaxPrepares == 2
MaxRunEvents == 2
MaxServeMsgs == 1
ExampleFileKiB == 200
ExampleChunks == 4
AcquireChunks == 2
MaxAcquireMsgs == 3
MaxLeaveMsgs == 3
MaxRecvEvents == 3
MaxRelayMsgs == 4
MaxBatchMsgs == 3
BatchChunks == 7
MaxRecvParts == 3

-----------------------------------------------------------------------------
(* JavaScript arithmetic *)

\* a % b of JavaScript: the remainder takes the sign of the dividend
JsMod(a, b) == IF a >= 0 THEN a % b ELSE 0 - ((0 - a) % b)

\* Math.floor(a / b), b > 0
Floor(a, b) == a \div b

\* Math.ceil(a / b), a >= 0, b > 0
Ceil(a, b) == (a + b - 1) \div b

Min(a, b) == IF a <= b THEN a ELSE b

-----------------------------------------------------------------------------
(* Symbolic byte buffers *)

NoBytes == <<>>

\* the payload p of length len
Whole(p, len) == IF len > 0 THEN <<[p |-> p, lo |-> 0, hi |-> len]>> ELSE NoBytes

\* data.slice(start, end) of the payload p
SliceOf(p, start, end) ==
    IF start < end THEN <<[p |-> p, lo |-> start, hi |-> end]>> ELSE NoBytes

\* combined.set(part, offset) for each part in turn: concatenation
Concat(a, b) ==
    IF a = NoBytes THEN b
    ELSE IF b = NoBytes THEN a
    ELSE LET x == a[Len(a)]
             y == b[1]
         IN IF x.p = y.p /\ x.hi = y.lo
            THEN SubSeq(a, 1, Len(a) - 1) \o <<[p |-> x.p, lo |-> x.lo, hi |-> y.hi]>>
                 \o SubSeq(b, 2, Len(b))
            ELSE a \o b

RECURSIVE ByteLength(_)
ByteLength(a) ==
    IF a = NoBytes THEN 0 ELSE (a[1].hi - a[1].lo) + ByteLength(Tail(a))

-----------------------------------------------------------------------------
(* Frame sequence tags *)

\* broadcastChunk, single-chunk branch: const seq = sequence * 10000
SingleSeq(sequence) == sequence * TAG_BASE

\* the two fields packed the other way round
PartSeqSwapped(sequence, i, totalParts) == sequence * TAG_BASE + (i * PART_BASE) + totalParts

\* broadcastChunk, split branch: const seq = sequence * 10000 + i + (totalParts * 100)
PartSeq(sequence, i, totalParts) == sequence * TAG_BASE + i + (totalParts * PART_BASE)

\* handleChunkedMedia: const frameNumber = Math.floor(sequence / 10000)
FrameNumberOf(sequence) == Floor(sequence, TAG_BASE)

\* handleChunkedMedia: const partInfo = sequence % 10000
PartInfoOf(sequence) == JsMod(sequence, TAG_BASE)

\* handleChunkedMedia: const partNumber = partInfo % 100
PartNumberOf(sequence) == JsMod(PartInfoOf(sequence), PART_BASE)

\* handleChunkedMedia: const totalParts = Math.floor(partInfo / 100)
TotalPartsOf(sequence) == Floor(PartInfoOf(sequence), PART_BASE)

DecodeSeq(sequence) ==
    [f |-> FrameNumberOf(sequence), p |-> PartNumberOf(sequence), t |-> TotalPartsOf(sequence)]

TagFrames == (0 .. MaxTagFrame) \cup {100000, 214747}

TagIdle == [f |-> 0, p |-> 0, t |-> 0]

TagInit ==
    /\ tagIn \in [f : TagFrames, p : 0 .. (PART_BASE - 1), t : 0 .. (PART_BASE - 1)]
    /\ tagPhase = "in"
    /\ tagPacked = 0
    /\ tagOut = TagIdle

TagOff ==
    /\ tagIn = TagIdle
    /\ tagPhase = "off"
    /\ tagPacked = 0
    /\ tagOut = TagIdle

\* the send path packs the drawn triple
TagPack ==
    /\ tagPhase = "in"
    /\ tagPacked' = PartSeq(tagIn.f, tagIn.p, tagIn.t)
    /\ tagPhase' = "packed"
    /\ UNCHANGED <<tagIn, tagOut, notTag>>

\* the receive path decodes the packed tag
TagDecode ==
    /\ tagPhase = "packed"
    /\ tagOut' = DecodeSeq(tagPacked)
    /\ tagPhase' = "decoded"
    /\ UNCHANGED <<tagIn, tagPacked, notTag>>

-----------------------------------------------------------------------------
(* StreamChannel.broadcastChunk *)

\* the comparison made strict
IsSingleChunkStrict(len) == len < MAX_CHUNK_SIZE

\* if (data.length <= MAX_CHUNK_SIZE)
IsSingleChunk(len) == len <= MAX_CHUNK_SIZE

\* const totalParts = Math.ceil(data.length / MAX_CHUNK_SIZE)
TotalPartsFor(len) == Ceil(len, MAX_CHUNK_SIZE)

\* const start = i * MAX_CHUNK_SIZE
PartStart(i) == i * MAX_CHUNK_SIZE

\* the end of a part not clipped to the payload
PartEndUnclipped(i, len) == PartStart(i) + MAX_CHUNK_SIZE

\* const end = Math.min(start + MAX_CHUNK_SIZE, data.length)
PartEnd(i, len) == Min(PartStart(i) + MAX_CHUNK_SIZE, len)

SmallLens == {0, 1, MAX_CHUNK_SIZE, MAX_CHUNK_SIZE + 1, 2 * MAX_CHUNK_SIZE, 130 * 1024}

BigLens ==
    {(PART_BASE - 1) * MAX_CHUNK_SIZE, (PART_BASE - 1) * MAX_CHUNK_SIZE + 1, 10000000}

PayloadLens == IF scenario = "fragBig" THEN SmallLens \cup BigLens ELSE SmallLens

Sender == "peerB"

\* what the transport hands to the receiving channel for one broadcast_chunk call
Transmission(seq, data) == [sequence |-> seq, data |-> data, from |-> Sender]

\* a call of broadcastChunk(data, sequence): the branch is chosen, nothing is sent yet
BroadcastChunkCall(len) ==
    /\ sendPhase # "sending"
    /\ callsLeft > 0
    /\ callsLeft' = callsLeft - 1
    /\ calls' = Append(calls, [seq |-> FirstFrame + sendPid, len |-> len])
    /\ sendPhase' = "sending"
    /\ sendData' = len
    /\ sendSeq' = FirstFrame + sendPid
    /\ sendPid' = sendPid + 1
    /\ sendTotal' = IF IsSingleChunk(len) THEN 0 ELSE TotalPartsFor(len)
    /\ sendI' = 0
    /\ sentLog' = <<>>
    /\ UNCHANGED <<now, ticksLeft, netMode, dupLeft, net, pendingChunks, dispatched, loop,
                   notChan>>

\* await this.channel.sender.broadcast_chunk(...): the transport accepts one message;
\* after the last one the call returns
BroadcastChunkSend ==
    /\ sendPhase = "sending"
    /\ Len(net) < MaxInFlight
    /\ LET t == IF sendTotal = 0
                THEN Transmission(SingleSeq(sendSeq), Whole(sendPid, sendData))
                ELSE Transmission(PartSeq(sendSeq, sendI, sendTotal),
                                  SliceOf(sendPid, PartStart(sendI), PartEnd(sendI, sendData)))
       IN /\ net' = Append(net, t)
          /\ sentLog' = Append(sentLog, t)
    /\ sendI' = sendI + 1
    /\ sendPhase' = IF sendTotal = 0 \/ sendI + 1 >= sendTotal THEN "returned" ELSE "sending"
    /\ UNCHANGED <<now, ticksLeft, netMode, dupLeft, callsLeft, calls, sendData, sendSeq,
                   sendPid, sendTotal, pendingChunks, dispatched, loop, notChan>>

\* the rejection caught and the call returning as if it had sent everything
BroadcastChunkSwallowed ==
    /\ scenario = "fragFail"
    /\ sendPhase = "sending"
    /\ sendPhase' = "returned"
    /\ UNCHANGED <<now, ticksLeft, netMode, dupLeft, callsLeft, calls, sendData, sendSeq,
                   sendPid, sendTotal, sendI, sentLog, net, pendingChunks, dispatched,
                   loop, notChan>>

\* await this.channel.sender.broadcast_chunk(...) rejects: nothing catches it in
\* broadcastChunk, whose promise rejects; the loop over the parts is left
BroadcastChunkRejected ==
    /\ scenario = "fragFail"
    /\ sendPhase = "sending"
    /\ sendPhase' = "rejected"
    /\ UNCHANGED <<now, ticksLeft, netMode, dupLeft, callsLeft, calls, sendData, sendSeq,
                   sendPid, sendTotal, sendI, sentLog, net, pendingChunks, dispatched,
                   loop, notChan>>

-----------------------------------------------------------------------------
(* StreamChannel.handleChunkedMedia *)

NoPending == <<>>

MapSet(m, k, v) == [x \in (DOMAIN m) \cup {k} |-> IF x = k THEN v ELSE m[x]]

MapDelete(m, k) == [x \in (DOMAIN m) \ {k} |-> m[x]]

\* if (totalParts <= 1 && partNumber === 0)
IsSingleFrame(sequence) == TotalPartsOf(sequence) <= 1 /\ PartNumberOf(sequence) = 0

\* this.pendingChunks.set(frameNumber, {chunks: new Map(), totalParts: totalParts || 1, ...})
NewPending(ev, clock) ==
    [chunks |-> <<>>,
     totalParts |-> IF TotalPartsOf(ev.sequence) # 0 THEN TotalPartsOf(ev.sequence) ELSE 1,
     from |-> ev.from,
     timestamp |-> IF ev.timestamp # 0 THEN ev.timestamp ELSE clock]

\* if (totalParts > 0) pending.totalParts = totalParts
UpdatedTotal(old, declared) == IF declared > 0 THEN declared ELSE old

\* the store step: look up or create the entry, chunks.set(partNumber, ...), update totalParts
StorePart(pc, ev, clock) ==
    LET fn == FrameNumberOf(ev.sequence)
        e0 == IF fn \in DOMAIN pc THEN pc[fn] ELSE NewPending(ev, clock)
    IN [e0 EXCEPT !.chunks = MapSet(e0.chunks, PartNumberOf(ev.sequence), ev.data),
                  !.totalParts = UpdatedTotal(e0.totalParts, TotalPartsOf(ev.sequence))]

\* if (pending.chunks.size >= pending.totalParts)
HaveAllParts(e) == Cardinality(DOMAIN e.chunks) >= e.totalParts

\* for (let i = 0; i < pending.totalParts; i++) { const chunk = pending.chunks.get(i); ...
MissingPart(e) == \E i \in 0 .. (e.totalParts - 1) : i \notin DOMAIN e.chunks

\* combined.set(chunk, offset) for the parts lo .. hi-1 in index order (the loop is
\* split in halves, which gives the same buffer)
RECURSIVE CombineParts(_, _, _)
CombineParts(e, lo, hi) ==
    IF hi <= lo THEN NoBytes
    ELSE IF hi = lo + 1 THEN e.chunks[lo]
    ELSE LET mid == (lo + hi) \div 2
         IN Concat(CombineParts(e, lo, mid), CombineParts(e, mid, hi))

\* if (now - p.timestamp > 5000)
IsStale(e, clock) == clock - e.timestamp > STALE_MS

\* the sweep that follows a successful reassembly
SweepStale(pc, clock) ==
    [fn \in {f \in DOMAIN pc : ~IsStale(pc[f], clock)} |-> pc[fn]]

\* the frame with a missing part left in the table
DropFrameKept(pc, fn) == pc

\* console.warn('Missing part ...'); this.pendingChunks.delete(frameNumber); return null
DropFrame(pc, fn) == MapDelete(pc, fn)

\* handleChunkedMedia(event): the new table and the returned buffer (has = FALSE: null)
HandleChunkedMedia(pc, ev, clock) ==
    IF IsSingleFrame(ev.sequence)
    THEN [pending |-> pc, has |-> TRUE, data |-> ev.data]
    ELSE LET fn == FrameNumberOf(ev.sequence)
             e == StorePart(pc, ev, clock)
         IN IF HaveAllParts(e)
            THEN IF MissingPart(e)
                 THEN [pending |-> DropFrame(pc, fn), has |-> FALSE, data |-> NoBytes]
                 ELSE [pending |-> SweepStale(MapDelete(pc, fn), clock),
                       has |-> TRUE, data |-> CombineParts(e, 0, e.totalParts)]
            ELSE [pending |-> MapSet(pc, fn, e), has |-> FALSE, data |-> NoBytes]

\* the loop as startListening leaves it
Listening == [alive |-> TRUE, running |-> TRUE, lagged |-> 0]

\* which in-flight event the transport may surface next
Deliverable(k) ==
    /\ k \in 1 .. Len(net)
    /\ netMode = "fifo" => k = 1

RemoveAt(s, k) == SubSeq(s, 1, k - 1) \o SubSeq(s, k + 1, Len(s))

\* one turn of the startListening loop on a mediaChunk event: reassemble, and
\* call the listeners when handleChunkedMedia returned a buffer
MediaChunkTurn(ev) ==
    LET fn == FrameNumberOf(ev.sequence)
        r == HandleChunkedMedia(pendingChunks, ev, now)
    IN /\ pendingChunks' = r.pending
       /\ dispatched' =
             IF r.has
             THEN Append(dispatched,
                         [sequence |-> ev.sequence, data |-> r.data, from |-> ev.from,
                          multi |-> ~IsSingleFrame(ev.sequence),
                          age |-> IF fn \in DOMAIN pendingChunks
                                  THEN now - pendingChunks[fn].timestamp ELSE 0])
             ELSE dispatched

\* the transport surfaces an event that the send path put in flight
ReceiveMediaChunk(k, consume, stamped) ==
    /\ Deliverable(k)
    /\ loop.alive
    /\ consume \/ dupLeft > 0
    /\ MediaChunkTurn([sequence |-> net[k].sequence, data |-> net[k].data,
                       from |-> net[k].from, timestamp |-> IF stamped THEN now ELSE 0])
    /\ net' = IF consume THEN RemoveAt(net, k) ELSE net
    /\ dupLeft' = IF consume THEN dupLeft ELSE dupLeft - 1
    /\ UNCHANGED <<now, ticksLeft, netMode, callsLeft, calls, sendPhase, sendData,
                   sendSeq, sendPid, sendTotal, sendI, sentLog, loop, notChan>>

\* the sequence tags of the mediaChunk events other peers may send: the parts of a
\* frame declared with 2 .. MaxRecvParts parts, the two parts of the next frame,
\* a single-chunk frame, a part 1 of a frame declared with one part, and tags below
\* zero
RecvTags ==
    {PartSeq(FirstFrame, i, t) : i \in 0 .. MaxRecvParts - 1, t \in 2 .. MaxRecvParts}
        \cup {PartSeq(FirstFrame + 1, i, 2) : i \in 0 .. 1}
        \cup {SingleSeq(FirstFrame), PartSeq(FirstFrame, 1, 1), -1, 0 - TAG_BASE}

\* what the loop does after the listeners were called: `throws` tells whether a
\* listener raised an exception (try { while ... } catch: the loop ends), and the
\* while condition is tested before the next read
AfterDispatch(called, throws) ==
    [loop EXCEPT !.alive = loop.running /\ ~(called /\ throws)]

\* one turn of the loop on a mediaChunk event of another peer
InboundPart(seq, throws) ==
    /\ scenario = "recv"
    /\ evLeft > 0
    /\ loop.alive
    /\ evLeft' = evLeft - 1
    /\ MediaChunkTurn([sequence |-> seq, data |-> Whole(evLeft, MAX_CHUNK_SIZE),
                       from |-> Sender, timestamp |-> now])
    /\ loop' = AfterDispatch(Len(dispatched') > Len(dispatched), throws)
    /\ UNCHANGED <<now, ticksLeft, netMode, dupLeft, callsLeft, calls, sendPhase,
                   sendData, sendSeq, sendPid, sendTotal, sendI, sentLog, net, scenario,
                   tagVars, nodeVars, sigVars, bcastVars, viewVars>>

\* the peers whose parts reach the channel
Senders == {Sender, "peerC"}

\* the tags of the parts of one frame declared with 2 .. MaxRecvParts parts
FrameTags ==
    {PartSeq(FirstFrame, i, t) : i \in 0 .. MaxRecvParts - 1, t \in 2 .. MaxRecvParts}

\* one turn of the loop on a mediaChunk event of the peer `from`; the payload of
\* the event is named after its sender
InboundPartFrom(seq, from) ==
    /\ scenario = "recvTwo"
    /\ evLeft > 0
    /\ loop.alive
    /\ evLeft' = evLeft - 1
    /\ MediaChunkTurn([sequence |-> seq, data |-> Whole(<<from, evLeft>>, MAX_CHUNK_SIZE),
                       from |-> from, timestamp |-> now])
    /\ loop' = AfterDispatch(Len(dispatched') > Len(dispatched), FALSE)
    /\ UNCHANGED <<now, ticksLeft, netMode, dupLeft, callsLeft, calls, sendPhase,
                   sendData, sendSeq, sendPid, sendTotal, sendI, sentLog, net, scenario,
                   tagVars, nodeVars, sigVars, bcastVars, viewVars>>

\* one turn of the loop on a 'lagged' event: it is given to the listeners
InboundLagged(throws) ==
    /\ scenario = "recv"
    /\ evLeft > 0
    /\ loop.alive
    /\ evLeft' = evLeft - 1
    /\ loop' = [AfterDispatch(TRUE, throws) EXCEPT !.lagged = @ + 1]
    /\ UNCHANGED <<now, ticksLeft, netMode, dupLeft, callsLeft, calls, sendPhase,
                   sendData, sendSeq, sendPid, sendTotal, sendI, sentLog, net,
                   pendingChunks, dispatched, scenario, tagVars, nodeVars, sigVars, bcastVars,
                   viewVars>>

\* reader.read() rejects: the catch that encloses the while loop ends the loop
ReadFails ==
    /\ scenario = "recv"
    /\ evLeft > 0
    /\ loop.alive
    /\ evLeft' = evLeft - 1
    /\ loop' = [loop EXCEPT !.alive = FALSE]
    /\ UNCHANGED <<now, ticksLeft, netMode, dupLeft, callsLeft, calls, sendPhase,
                   sendData, sendSeq, sendPid, sendTotal, sendI, sentLog, net,
                   pendingChunks, dispatched, scenario, tagVars, nodeVars, sigVars, bcastVars,
                   viewVars>>

\* stopListening()
StopListening ==
    /\ scenario = "recv"
    /\ loop.running
    /\ loop' = [loop EXCEPT !.running = FALSE]
    /\ UNCHANGED <<now, ticksLeft, netMode, dupLeft, callsLeft, calls, sendPhase,
                   sendData, sendSeq, sendPid, sendTotal, sendI, sentLog, net,
                   pendingChunks, dispatched, notChan>>

\* time passes
Tick ==
    /\ ticksLeft > 0
    /\ ticksLeft' = ticksLeft - 1
    /\ now' = now + TickMs
    /\ UNCHANGED <<netMode, dupLeft, callsLeft, calls, sendPhase, sendData, sendSeq,
                   sendPid, sendTotal, sendI, sentLog, net, pendingChunks, dispatched,
                   loop, notChan>>

ChanInit(mode, dups, ticks, ncalls) ==
    /\ now = StartMs
    /\ ticksLeft = ticks
    /\ netMode = mode
    /\ dupLeft = dups
    /\ callsLeft = ncalls
    /\ calls = <<>>
    /\ sendPhase = "idle"
    /\ sendData = 0
    /\ sendSeq = 0
    /\ sendPid = 0
    /\ sendTotal = 0
    /\ sendI = 0
    /\ sentLog = <<>>
    /\ net = <<>>
    /\ pendingChunks = NoPending
    /\ dispatched = <<>>
    /\ loop = Listening

ChanOff == ChanInit("off", 0, 0, 0)

-----------------------------------------------------------------------------
(* Live signaling: handleWebRTCSignal / handleStreamEvent *)

Me == "me"
PeerB == "peerB"
Elsewhere == "peerZ"
RemotePeers == {PeerB}

LiveOn == scenario \in {"live", "liveIce", "watch", "liveStop", "app"}

NoPeers == <<>>

SignalTypes ==
    {"webrtc-request-offer", "webrtc-offer", "webrtc-answer", "webrtc-ice-candidate"}

Signal(type, from, to, cand) == [type |-> type, from |-> from, to |-> to, cand |-> cand]

\* the decoded signals the transport may deliver; `to` is "" when the field is absent,
\* `cand` tells whether an ice-candidate message carries a candidate
AllSignals ==
    {Signal(type, from, to, type = "webrtc-ice-candidate") :
        type \in SignalTypes, from \in RemotePeers, to \in {"", Me, Elsewhere}}
    \cup {Signal(type, Me, "", type = "webrtc-ice-candidate") : type \in SignalTypes}
    \cup {Signal("webrtc-ice-candidate", from, "", FALSE) : from \in RemotePeers}

AppSignals ==
    {Signal(type, from, "", type = "webrtc-ice-candidate") :
        type \in SignalTypes, from \in {Me, PeerB}}

\* every kind of signal of one peer, addressed to all
PeerSignals ==
    {Signal(type, PeerB, "", type = "webrtc-ice-candidate") : type \in SignalTypes}

\* what a viewer that has just joined may be sent
WatchSignals ==
    {Signal("webrtc-offer", PeerB, to, FALSE) : to \in {"", Elsewhere}}
        \cup {Signal("webrtc-ice-candidate", PeerB, "", TRUE)}

SignalsIn ==
    CASE scenario = "app" -> AppSignals
      [] scenario \in {"liveIce", "liveStop"} -> PeerSignals
      [] scenario = "watch" -> WatchSignals
      [] OTHER -> AllSignals

NeverLeft == [handles |-> -1, ice |-> -1]

NoSignal == [type |-> "none", from |-> "", media |-> "none"]

\* signal.from === myEndpointIdRef.current
SignalFromSelfNever(sig) == FALSE
SignalFromSelf(sig) == sig.from = Me

\* the test of the addressee left out
SignalForSomeoneElseNever(sig) == FALSE

\* signal.to && signal.to !== myEndpointIdRef.current
SignalForSomeoneElse(sig) == sig.to # "" /\ sig.to # Me

\* mediaStreamRef.current is set and has at least one track whose readyState is 'live'
MediaActiveNoTrackCheck == media # "none"
MediaActive == media = "live"

\* new RTCPeerConnection(...) as the handler sees it
NewHandle(peer, role) ==
    [peer |-> peer, role |-> role, signalingState |-> "stable",
     remoteDescription |-> FALSE, localDescription |-> FALSE,
     closed |-> FALSE, applied |-> <<>>]

NewTask(id, kind, from, pc, stage) ==
    [id |-> id, kind |-> kind, from |-> from, pc |-> pc, stage |-> stage,
     arr |-> 0, idx |-> 0]

\* what a handler invocation may change
liveState == <<peerConnections, handles, pendingIce, arrays, tasks, sigOut, recvIce>>

\* case 'webrtc-request-offer'
OnRequestOffer(sig) ==
    IF ~MediaActive
    THEN UNCHANGED liveState
    ELSE /\ handles' = Append(handles, NewHandle(sig.from, "broadcaster"))
         /\ peerConnections' = MapSet(peerConnections, sig.from, Len(handles) + 1)
         /\ tasks' = tasks \cup
               {NewTask(evLeft, "request-offer", sig.from, Len(handles) + 1, "createOffer")}
         /\ UNCHANGED <<pendingIce, arrays, sigOut, recvIce>>

\* case 'webrtc-offer', up to the first await
OnOffer(sig) ==
    /\ handles' = Append(handles, NewHandle(sig.from, "viewer"))
    /\ peerConnections' = MapSet(peerConnections, sig.from, Len(handles) + 1)
    /\ tasks' = tasks \cup
          {NewTask(evLeft, "offer", sig.from, Len(handles) + 1, "setRemoteDescription")}
    /\ UNCHANGED <<pendingIce, arrays, sigOut, recvIce>>

\* case 'webrtc-answer', up to the first await
OnAnswer(sig) ==
    IF sig.from \in DOMAIN peerConnections
    THEN /\ tasks' = tasks \cup
               {NewTask(evLeft, "answer", sig.from, peerConnections[sig.from],
                        "setRemoteDescription")}
         /\ UNCHANGED <<peerConnections, handles, pendingIce, arrays, sigOut, recvIce>>
    ELSE UNCHANGED liveState

\* peerInfo && peerInfo.pc.remoteDescription
CanApplyNow(from) ==
    /\ from \in DOMAIN peerConnections
    /\ handles[peerConnections[from]].remoteDescription

\* case 'webrtc-ice-candidate'; the candidates of a peer are numbered as received
OnIceCandidate(sig) ==
    IF ~sig.cand
    THEN UNCHANGED liveState
    ELSE LET c == Len(recvIce[sig.from]) + 1 IN
         /\ recvIce' = [recvIce EXCEPT ![sig.from] = Append(@, c)]
         /\ IF CanApplyNow(sig.from)
            THEN /\ handles' =
                       IF handles[peerConnections[sig.from]].closed
                       THEN handles
                       ELSE [handles EXCEPT ![peerConnections[sig.from]].applied =
                                                Append(@, c)]
                 /\ UNCHANGED <<pendingIce, arrays>>
            ELSE IF sig.from \in DOMAIN pendingIce
                 THEN /\ arrays' = [arrays EXCEPT ![pendingIce[sig.from]] = Append(@, c)]
                      /\ UNCHANGED <<pendingIce, handles>>
                 ELSE /\ arrays' = Append(arrays, <<c>>)
                      /\ pendingIce' = MapSet(pendingIce, sig.from, Len(arrays) + 1)
                      /\ UNCHANGED handles
         /\ UNCHANGED <<peerConnections, tasks, sigOut>>

\* forwardSignal -> handleWebRTCSignal, up to its first await
ReceiveSignal(sig) ==
    /\ LiveOn
    /\ evLeft > 0
    /\ evLeft' = evLeft - 1
    /\ lastSig' = [type |-> sig.type, from |-> sig.from, media |-> media]
    /\ IF SignalFromSelf(sig) \/ SignalForSomeoneElse(sig) \/ ~liveChannel
       THEN UNCHANGED liveState
       ELSE CASE sig.type = "webrtc-request-offer" -> OnRequestOffer(sig)
              [] sig.type = "webrtc-offer" -> OnOffer(sig)
              [] sig.type = "webrtc-answer" -> OnAnswer(sig)
              [] sig.type = "webrtc-ice-candidate" -> OnIceCandidate(sig)
              [] OTHER -> UNCHANGED liveState
    /\ UNCHANGED <<stopVars, leftAt, retryVars, media, iceLeft, notLive>>

\* createOffer and setLocalDescription have resolved: the offer is sent
ResumeCreateOffer(t) ==
    /\ LiveOn
    /\ t \in tasks
    /\ t.stage = "createOffer"
    /\ tasks' = tasks \ {t}
    /\ IF handles[t.pc].closed
       THEN UNCHANGED <<handles, sigOut>>
       ELSE /\ handles' = [handles EXCEPT ![t.pc].localDescription = TRUE,
                                          ![t.pc].signalingState = "have-local-offer"]
            /\ sigOut' = Append(sigOut, [type |-> "webrtc-offer", to |-> t.from])
    /\ UNCHANGED <<peerConnections, pendingIce, arrays, recvIce, lastSig, evLeft,
                   stopVars, leftAt, retryVars, media, iceLeft, notLive>>

\* one turn of `for (const candidate of pending) await pc.addIceCandidate(candidate)`,
\* and what follows the loop
Drain(t, hs, arr, idx) ==
    IF arr # 0 /\ idx <= Len(arrays[arr])
    THEN /\ UNCHANGED <<pendingIce, sigOut>>
         /\ IF hs[t.pc].closed
            THEN /\ handles' = hs
                 /\ tasks' = tasks \ {t}
            ELSE /\ handles' = [hs EXCEPT ![t.pc].applied = Append(@, arrays[arr][idx])]
                 /\ tasks' = (tasks \ {t}) \cup
                       {[t EXCEPT !.stage = "addIceCandidate", !.arr = arr, !.idx = idx]}
    ELSE /\ pendingIce' = MapDelete(pendingIce, t.from)
         /\ handles' = hs
         /\ tasks' = IF t.kind = "offer"
                     THEN (tasks \ {t}) \cup {[t EXCEPT !.stage = "createAnswer"]}
                     ELSE tasks \ {t}
         /\ UNCHANGED sigOut

\* setRemoteDescription has settled
ResumeSetRemote(t) ==
    /\ LiveOn
    /\ t \in tasks
    /\ t.stage = "setRemoteDescription"
    /\ IF \/ handles[t.pc].closed
          \/ t.kind = "answer" /\ handles[t.pc].signalingState # "have-local-offer"
       THEN /\ tasks' = tasks \ {t}
            /\ UNCHANGED <<handles, pendingIce, sigOut>>
       ELSE Drain(t,
                  [handles EXCEPT ![t.pc].remoteDescription = TRUE,
                                  ![t.pc].signalingState =
                                      IF t.kind = "offer" THEN "have-remote-offer"
                                                          ELSE "stable"],
                  IF t.from \in DOMAIN pendingIce THEN pendingIce[t.from] ELSE 0,
                  1)
    /\ UNCHANGED <<peerConnections, arrays, recvIce, lastSig, evLeft, stopVars, leftAt, retryVars,
                   media, iceLeft, notLive>>

\* an addIceCandidate of the drain loop has resolved
ResumeAddIce(t) ==
    /\ LiveOn
    /\ t \in tasks
    /\ t.stage = "addIceCandidate"
    /\ Drain(t, handles, t.arr, t.idx + 1)
    /\ UNCHANGED <<peerConnections, arrays, recvIce, lastSig, evLeft, stopVars, leftAt, retryVars,
                   media, iceLeft, notLive>>

\* createAnswer and setLocalDescription have resolved: the answer is sent
ResumeCreateAnswer(t) ==
    /\ LiveOn
    /\ t \in tasks
    /\ t.stage = "createAnswer"
    /\ tasks' = tasks \ {t}
    /\ IF handles[t.pc].closed
       THEN UNCHANGED <<handles, sigOut>>
       ELSE /\ handles' = [handles EXCEPT ![t.pc].localDescription = TRUE,
                                          ![t.pc].signalingState = "stable"]
            /\ sigOut' = Append(sigOut, [type |-> "webrtc-answer", to |-> t.from])
    /\ UNCHANGED <<peerConnections, pendingIce, arrays, recvIce, lastSig, evLeft,
                   stopVars, leftAt, retryVars, media, iceLeft, notLive>>

\* the handle's onIceCandidate callback
LocalIceCandidate(h) ==
    /\ LiveOn
    /\ iceLeft > 0
    /\ h \in 1 .. Len(handles)
    /\ handles[h].localDescription
    /\ ~handles[h].closed
    /\ iceLeft' = iceLeft - 1
    /\ sigOut' = Append(sigOut, [type |-> "webrtc-ice-candidate", to |-> handles[h].peer])
    /\ UNCHANGED <<peerConnections, handles, pendingIce, arrays, tasks, recvIce, lastSig,
                   evLeft, stopVars, leftAt, retryVars, media, notLive>>

\* case 'neighborDown'
NeighborDown(p) ==
    /\ LiveOn
    /\ evLeft > 0
    /\ evLeft' = evLeft - 1
    /\ IF p \in DOMAIN peerConnections
       THEN /\ handles' = [handles EXCEPT ![peerConnections[p]].closed = TRUE]
            /\ peerConnections' = MapDelete(peerConnections, p)
       ELSE UNCHANGED <<handles, peerConnections>>
    /\ leftAt' = [leftAt EXCEPT ![p] = [handles |-> Len(handles),
                                        ice |-> Len(recvIce[p])]]
    /\ UNCHANGED <<pendingIce, arrays, tasks, sigOut, recvIce, lastSig, stopVars,
                   retryVars, media, iceLeft, notLive>>

\* every track of the media stream ends (the camera is suspended)
TrackEnded ==
    /\ LiveOn
    /\ media = "live"
    /\ media' = "ended"
    /\ UNCHANGED <<liveState, lastSig, evLeft, stopVars, leftAt, retryVars, iceLeft, notLive>>

\* peerConnectionsRef.current.size > 0
Connected == Cardinality(DOMAIN peerConnections) > 0

\* retryCount > maxRetries
PastCeilingNever(count) == FALSE
PastCeiling(count) == count > MAX_RETRIES

\* try { await broadcastSignal(requestSignal) } catch (err) { console.warn(...) }
SendFailureCaught == TRUE

\* the retry interval of handleJoinStream fires; `ok` tells whether the transport
\* accepts the signal
RetryTick(ok) ==
    /\ LiveOn
    /\ retryOn
    /\ retryCount' = retryCount + 1
    /\ IF Connected \/ PastCeiling(retryCount')
       THEN /\ retryOn' = FALSE
            /\ UNCHANGED <<retryAttempts, retryError, sigOut>>
       ELSE /\ retryOn' = retryOn
            /\ IF liveChannel
               THEN /\ retryAttempts' = retryAttempts + 1
                    /\ sigOut' = IF ok
                                 THEN Append(sigOut, [type |-> "webrtc-request-offer",
                                                      to |-> ""])
                                 ELSE sigOut
                    /\ retryError' = (retryError \/ (~ok /\ ~SendFailureCaught))
               ELSE UNCHANGED <<retryAttempts, retryError, sigOut>>
    /\ UNCHANGED <<peerConnections, handles, pendingIce, arrays, tasks, recvIce, lastSig,
                   evLeft, stopVars, leftAt, media, iceLeft, notLive>>

\* peerConnectionsRef.current.forEach(info => info.pc.close())
RECURSIVE CloseAll(_, _)
CloseAll(hs, table) ==
    IF DOMAIN table = {} THEN hs
    ELSE LET p == CHOOSE q \in DOMAIN table : TRUE IN
         CloseAll([hs EXCEPT ![table[p]].closed = TRUE], MapDelete(table, p))

\* pendingIceCandidatesRef.current.clear()
QueuesKept == pendingIce
QueuesCleared == NoPeers

\* stopStreamRef.current: the stop routine of the live session
StopStream ==
    /\ scenario = "liveStop"
    /\ evLeft > 0
    /\ evLeft' = evLeft - 1
    /\ handles' = CloseAll(handles, peerConnections)
    /\ peerConnections' = NoPeers
    /\ pendingIce' = QueuesCleared
    /\ media' = "none"
    /\ IF liveChannel
       THEN /\ session' = [presence |-> FALSE, listening |-> FALSE, freed |-> TRUE,
                           stops |-> session.stops + 1]
            /\ retryOn' = FALSE
            /\ liveChannel' = FALSE
       ELSE /\ session' = [session EXCEPT !.stops = @ + 1]
            /\ UNCHANGED <<retryOn, liveChannel>>
    /\ UNCHANGED <<arrays, tasks, sigOut, recvIce, lastSig, leftAt, retryCount,
                   retryAttempts, retryError, iceLeft, notLive>>

LiveInit(m, ice, retry) ==
    /\ session = [presence |-> m # "none", listening |-> TRUE, freed |-> FALSE,
                  stops |-> 0]
    /\ retryOn = retry
    /\ retryCount = 0
    /\ retryAttempts = 0
    /\ retryError = FALSE
    /\ liveChannel = TRUE
    /\ media = m
    /\ peerConnections = NoPeers
    /\ handles = <<>>
    /\ pendingIce = NoPeers
    /\ arrays = <<>>
    /\ tasks = {}
    /\ sigOut = <<>>
    /\ recvIce = [p \in RemotePeers |-> <<>>]
    /\ iceLeft = ice
    /\ lastSig = NoSignal
    /\ leftAt = [p \in RemotePeers |-> NeverLeft]

LiveOff ==
    /\ session = [presence |-> FALSE, listening |-> FALSE, freed |-> FALSE, stops |-> 0]
    /\ retryOn = FALSE
    /\ retryCount = 0
    /\ retryAttempts = 0
    /\ retryError = FALSE
    /\ liveChannel = FALSE
    /\ media = "none"
    /\ peerConnections = NoPeers
    /\ handles = <<>>
    /\ pendingIce = NoPeers
    /\ arrays = <<>>
    /\ tasks = {}
    /\ sigOut = <<>>
    /\ recvIce = [p \in RemotePeers |-> <<>>]
    /\ iceLeft = 0
    /\ lastSig = NoSignal
    /\ leftAt = [p \in RemotePeers |-> NeverLeft]

-----------------------------------------------------------------------------
(* File-chunk protocol messages *)

\* a decoded message; `has` names the optional fields it carries
VideoMsg(type, from, has, totalChunks, mimeType, chunkIndex, availableChunks) ==
    [type |-> type, from |-> from, has |-> has, totalChunks |-> totalChunks,
     mimeType |-> mimeType, chunkIndex |-> chunkIndex,
     availableChunks |-> availableChunks]

MetadataMsg(from, n, mime) ==
    VideoMsg("video-metadata", from, {"totalChunks", "mimeType"}, n, mime, 0, {})
ChunkMsg(from, i) ==
    VideoMsg("video-chunk", from, {"chunkIndex", "chunkData"}, 0, "", i, {})
ChunkMsgNoData(from, i) ==
    VideoMsg("video-chunk", from, {"chunkIndex"}, 0, "", i, {})
RequestChunkMsg(from, i) ==
    VideoMsg("video-request-chunk", from, {"chunkIndex"}, 0, "", i, {})
RequestChunkMsgNoIndex(from) ==
    VideoMsg("video-request-chunk", from, {}, 0, "", 0, {})
RequestMetadataMsg(from) ==
    VideoMsg("video-request-metadata", from, {}, 0, "", 0, {})
HaveChunksMsg(from, s) ==
    VideoMsg("video-have-chunks", from, {"availableChunks"}, 0, "", 0, s)
OtherMsg(from) ==
    VideoMsg("webrtc-offer", from, {}, 0, "", 0, {})

\* what is remembered of the message last handled
LastOf(msg) == [type |-> msg.type, from |-> msg.from]
NoMsg == [type |-> "none", from |-> ""]

\* decodeVideoMessage: parsed.type.startsWith('video-')
IsVideoType(type) ==
    type \in {"video-metadata", "video-chunk", "video-request-chunk",
              "video-have-chunks", "video-request-metadata"}

\* what a component hands to the channel: broadcastSignal(message) ...
OutSignal(type, totalChunks, chunkIndex, availableChunks) ==
    [op |-> "broadcastSignal", type |-> type, sequence |-> 0,
     totalChunks |-> totalChunks, chunkIndex |-> chunkIndex,
     availableChunks |-> availableChunks, data |-> NoBytes]

\* ... or broadcastChunk(encodeVideoMessage(video-chunk message), sequence)
OutChunk(sequence, chunkIndex, data) ==
    [op |-> "broadcastChunk", type |-> "video-chunk", sequence |-> sequence,
     totalChunks |-> 0, chunkIndex |-> chunkIndex, availableChunks |-> {},
     data |-> data]

\* the record of what was handed to the channel; the viewer that runs without a
\* bound on its batches keeps the last message only
Handed(out, m) == IF scenario = "acquire" THEN <<m>> ELSE Append(out, m)

\* bytes i * VIDEO_CHUNK_SIZE .. of a file of `size` bytes
ChunkBytes(i, size) ==
    SliceOf("file", i * VIDEO_CHUNK_SIZE, Min((i + 1) * VIDEO_CHUNK_SIZE, size))

-----------------------------------------------------------------------------
(* VideoFileBroadcaster *)

BcastOn == scenario \in {"bcast", "bcastRun", "bcastServe", "app"}

FileSizes ==
    {0, 1, VIDEO_CHUNK_SIZE, VIDEO_CHUNK_SIZE + 1, MaxChunks * VIDEO_CHUNK_SIZE,
     ExampleFileKiB * 1024}

RunFileSizes == {0, MaxChunks * VIDEO_CHUNK_SIZE}

BcastMsgsIn ==
    IF scenario = "app"
    THEN {RequestMetadataMsg(PeerB), RequestChunkMsg(PeerB, 0),
          RequestMetadataMsg(Me), RequestChunkMsg(Me, 0), OtherMsg(Me)}
    ELSE IF scenario \in {"bcastRun", "bcastServe"}
    THEN {RequestMetadataMsg(PeerB), RequestChunkMsg(PeerB, 0),
          RequestChunkMsg(PeerB, MaxChunks)}
    ELSE {RequestMetadataMsg(PeerB), RequestChunkMsgNoIndex(PeerB),
          MetadataMsg(PeerB, 1, "video/mp4"), ChunkMsg(PeerB, 0),
          HaveChunksMsg(PeerB, {0}), OtherMsg(PeerB)}
         \cup {RequestChunkMsg(PeerB, i) : i \in -1 .. MaxChunks}
         \cup {RequestMetadataMsg(Me), RequestChunkMsg(Me, 0), MetadataMsg(Me, 1, "video/mp4"),
               ChunkMsg(Me, 0), HaveChunksMsg(Me, {0}), OtherMsg(Me)}

\* message.from === this.myEndpointId
BroadcasterFromSelf(msg) == msg.from = Me

\* what handleMessage may change
bcastState == <<bChunks, bMetadata, bPrepared, bOut, bPeerRequests>>

\* what startBroadcast, stopBroadcast and the emission loop may change
runState == <<bStreaming, bIndex, bLoops, bProgress, bEmitted, bLastCall>>

NoLoops == [prepare |-> 0, metadata |-> 0, sending |-> 0, timer |-> 0]
NoCall == [op |-> "none", streaming |-> FALSE, starts |-> 0, stops |-> 0, evLeft |-> 0]

\* a call of `op` made now: whether isStreaming was set, how many calls of each kind
\* there have been, and how many messages handleMessage was still to be given
CallOf(op) ==
    [op |-> op, streaming |-> bStreaming,
     starts |-> bLastCall.starts + (IF op = "start" THEN 1 ELSE 0),
     stops |-> bLastCall.stops + (IF op = "stop" THEN 1 ELSE 0),
     evLeft |-> evLeft]

\* constructor: totalChunks = Math.ceil(file.size / VIDEO_CHUNK_SIZE)
BcastInit(size, mime, prepares, runs) ==
    /\ bFileSize = size
    /\ bChunks = <<>>
    /\ bMetadata = [fileSize |-> size, mimeType |-> mime,
                    totalChunks |-> Ceil(size, VIDEO_CHUNK_SIZE)]
    /\ bPrepared = FALSE
    /\ bOut = <<>>
    /\ bPeerRequests = <<>>
    /\ bLast = NoMsg
    /\ bStreaming = FALSE
    /\ bIndex = 0
    /\ bLoops = NoLoops
    /\ bProgress = <<>>
    /\ bEmitted = <<>>
    /\ bPrepLeft = prepares
    /\ bRunLeft = runs
    /\ bLastCall = NoCall

NoRuns == [start |-> 0, stop |-> 0]

BcastOff == BcastInit(0, "", 0, NoRuns)

\* data.slice(i, Math.min(i + VIDEO_CHUNK_SIZE, data.length)) for i = 0, 64 KiB, ...
RECURSIVE SliceFileWholeOnly(_, _)
SliceFileWholeOnly(i, size) ==
    IF i + VIDEO_CHUNK_SIZE <= size
    THEN <<SliceOf("file", i, Min(i + VIDEO_CHUNK_SIZE, size))>>
             \o SliceFileWholeOnly(i + VIDEO_CHUNK_SIZE, size)
    ELSE <<>>
RECURSIVE SliceFile(_, _)
SliceFile(i, size) ==
    IF i < size
    THEN <<SliceOf("file", i, Min(i + VIDEO_CHUNK_SIZE, size))>>
             \o SliceFile(i + VIDEO_CHUNK_SIZE, size)
    ELSE <<>>

\* prepare(), after file.arrayBuffer() has resolved
BroadcasterPrepare ==
    /\ BcastOn
    /\ bPrepLeft > 0
    /\ bPrepLeft' = bPrepLeft - 1
    /\ bPrepared' = TRUE
    /\ bChunks' = SliceFile(0, bFileSize)
    /\ bMetadata' = [bMetadata EXCEPT !.totalChunks = Len(bChunks')]
    /\ UNCHANGED <<bFileSize, bOut, bPeerRequests, bLast, runState, bRunLeft, evLeft,
                   notBcast>>

\* broadcastMetadata
MetadataSignal == OutSignal("video-metadata", bMetadata.totalChunks, 0, {})

\* index >= 0 && index < this.chunks.length
HasChunk(index) == index >= 0 /\ index < Len(bChunks)

\* broadcastChunk(index): what is handed to the channel
ChunkOutOffset(index) == OutChunk(index + RELAY_OFFSET, index, bChunks[index + 1])
ChunkOut(index) == OutChunk(index, index, bChunks[index + 1])

\* handleChunkRequest(peerId, chunkIndex)
BroadcasterChunkRequest(msg) ==
    /\ bPeerRequests' = Append(bPeerRequests, <<msg.from, msg.chunkIndex>>)
    /\ bOut' = IF HasChunk(msg.chunkIndex)
               THEN Append(bOut, ChunkOut(msg.chunkIndex))
               ELSE bOut
    /\ UNCHANGED <<bChunks, bMetadata, bPrepared>>

\* handleMessage -> handleVideoMessage
BroadcasterHandleMessage(msg) ==
    /\ BcastOn
    /\ evLeft > 0
    /\ evLeft' = evLeft - 1
    /\ bLast' = LastOf(msg)
    /\ IF ~IsVideoType(msg.type) \/ BroadcasterFromSelf(msg)
       THEN UNCHANGED bcastState
       ELSE CASE msg.type = "video-request-metadata" ->
                    /\ bOut' = Append(bOut, MetadataSignal)
                    /\ UNCHANGED <<bChunks, bMetadata, bPrepared, bPeerRequests>>
              [] msg.type = "video-request-chunk" /\ "chunkIndex" \in msg.has ->
                    BroadcasterChunkRequest(msg)
              [] OTHER -> UNCHANGED bcastState
    /\ UNCHANGED <<bFileSize, runState, bPrepLeft, bRunLeft, notBcast>>

\* if (this.isStreaming) return
AlreadyStreamingNever == FALSE
AlreadyStreaming == bStreaming

\* if (!this.isStreaming) return
StoppedNever == FALSE
Stopped == ~bStreaming

\* startBroadcast from `this.isStreaming = true` to the await of broadcastMetadata
BeginStreaming(chunks, metadata) ==
    LET signal == OutSignal("video-metadata", metadata.totalChunks, 0, {}) IN
    /\ bStreaming' = TRUE
    /\ bOut' = Append(bOut, signal)
    /\ bEmitted' = Append(bEmitted, signal)

\* broadcastNext up to its await, entered with currentChunkIndex = index by an
\* invocation that was suspended in `stage`
BroadcastNext(index, stage) ==
    IF ~Stopped /\ index < Len(bChunks)
    THEN /\ bOut' = Append(bOut, ChunkOut(index))
         /\ bEmitted' = Append(bEmitted, ChunkOut(index))
         /\ bLoops' = [bLoops EXCEPT ![stage] = @ - 1, !.sending = @ + 1]
    ELSE /\ bLoops' = [bLoops EXCEPT ![stage] = @ - 1]
         /\ UNCHANGED <<bOut, bEmitted>>

\* startBroadcast() is called
StartBroadcast ==
    /\ BcastOn
    /\ bRunLeft.start > 0 /\ evLeft > 0
    /\ bRunLeft' = [bRunLeft EXCEPT !.start = @ - 1]
    /\ evLeft' = evLeft - 1
    /\ bLastCall' = CallOf("start")
    /\ IF AlreadyStreaming
       THEN UNCHANGED <<bStreaming, bOut, bEmitted, bLoops>>
       ELSE IF Len(bChunks) = 0
            THEN /\ bLoops' = [bLoops EXCEPT !.prepare = @ + 1]
                 /\ UNCHANGED <<bStreaming, bOut, bEmitted>>
            ELSE /\ BeginStreaming(bChunks, bMetadata)
                 /\ bLoops' = [bLoops EXCEPT !.metadata = @ + 1]
    /\ UNCHANGED <<bFileSize, bChunks, bMetadata, bPrepared, bPeerRequests, bLast,
                   bIndex, bProgress, bPrepLeft, notBcast>>

\* the prepare() awaited by startBroadcast has resolved
StartPrepared ==
    /\ BcastOn
    /\ bLoops.prepare > 0
    /\ bPrepared' = TRUE
    /\ bChunks' = SliceFile(0, bFileSize)
    /\ bMetadata' = [bMetadata EXCEPT !.totalChunks = Len(bChunks')]
    /\ BeginStreaming(bChunks', bMetadata')
    /\ bLoops' = [bLoops EXCEPT !.prepare = @ - 1, !.metadata = @ + 1]
    /\ UNCHANGED <<bFileSize, bPeerRequests, bLast, bIndex, bProgress, bLastCall,
                   bPrepLeft, bRunLeft, evLeft, notBcast>>

\* the broadcastMetadata() awaited by startBroadcast has resolved
StartEmission ==
    /\ BcastOn
    /\ bLoops.metadata > 0
    /\ bIndex' = 0
    /\ BroadcastNext(0, "metadata")
    /\ UNCHANGED <<bFileSize, bChunks, bMetadata, bPrepared, bPeerRequests, bLast,
                   bStreaming, bProgress, bLastCall, bPrepLeft, bRunLeft, evLeft,
                   notBcast>>

\* the broadcastChunk() awaited by broadcastNext has resolved
ChunkSent ==
    /\ BcastOn
    /\ bLoops.sending > 0
    /\ bIndex' = bIndex + 1
    /\ bProgress' = Append(bProgress, <<bIndex + 1, Len(bChunks)>>)
    /\ bLoops' = [bLoops EXCEPT !.sending = @ - 1, !.timer = @ + 1]
    /\ UNCHANGED <<bFileSize, bChunks, bMetadata, bPrepared, bOut, bPeerRequests, bLast,
                   bStreaming, bEmitted, bLastCall, bPrepLeft, bRunLeft, evLeft,
                   notBcast>>

\* the timer set by broadcastNext fires
EmissionTimer ==
    /\ BcastOn
    /\ bLoops.timer > 0
    /\ BroadcastNext(bIndex, "timer")
    /\ UNCHANGED <<bFileSize, bChunks, bMetadata, bPrepared, bPeerRequests, bLast,
                   bStreaming, bIndex, bProgress, bLastCall, bPrepLeft, bRunLeft, evLeft,
                   notBcast>>

\* stopBroadcast()
StopBroadcast ==
    /\ BcastOn
    /\ bRunLeft.stop > 0 /\ evLeft > 0
    /\ bRunLeft' = [bRunLeft EXCEPT !.stop = @ - 1]
    /\ evLeft' = evLeft - 1
    /\ bLastCall' = CallOf("stop")
    /\ bStreaming' = FALSE
    /\ UNCHANGED <<bFileSize, bChunks, bMetadata, bPrepared, bOut, bPeerRequests, bLast,
                   bIndex, bLoops, bProgress, bEmitted, bPrepLeft, notBcast>>

-----------------------------------------------------------------------------
(* VideoFileViewer *)

ViewOn ==
    scenario \in {"view", "viewFile", "acquire", "viewLeave", "relay", "batch", "app"}

Mimes == {"video/mp4", "video/webm"}

\* the chunk count of a file of more than RELAY_OFFSET chunks of VIDEO_CHUNK_SIZE bytes
LargeFileChunks == RELAY_OFFSET + 1

ViewMsgsIn ==
    IF scenario = "app"
    THEN {MetadataMsg(PeerB, 1, "video/mp4"), ChunkMsg(PeerB, 0),
          MetadataMsg(Me, 1, "video/mp4"), ChunkMsg(Me, 0), RequestChunkMsg(Me, 0),
          HaveChunksMsg(Me, {0}), RequestMetadataMsg(Me), OtherMsg(Me)}
    ELSE IF scenario = "viewFile"
    THEN {MetadataMsg(PeerB, ExampleChunks, "video/mp4")}
         \cup {ChunkMsg(PeerB, i) : i \in 0 .. ExampleChunks - 1}
    ELSE IF scenario = "viewLeave"
    THEN {MetadataMsg(PeerB, n, "video/mp4") : n \in 1 .. MaxChunks}
         \cup {ChunkMsg(PeerB, 0), HaveChunksMsg(PeerB, {0})}
    ELSE IF scenario = "batch"
    THEN {MetadataMsg(PeerB, BatchChunks, "video/mp4")}
         \cup {ChunkMsg(PeerB, i) : i \in {0, 1, REQUEST_BATCH}}
    ELSE IF scenario = "relay"
    THEN {MetadataMsg(PeerB, n, "video/mp4") : n \in {MaxChunks, LargeFileChunks}}
         \cup {ChunkMsg(PeerB, i) : i \in 0 .. MaxChunks - 1}
         \cup {RequestChunkMsg(PeerB, i) : i \in 0 .. MaxChunks}
    ELSE IF scenario = "acquire"
    THEN {MetadataMsg(PeerB, AcquireChunks, "video/mp4"),
          ChunkMsg(PeerB, 0), ChunkMsg(PeerB, AcquireChunks)}
    ELSE {ChunkMsgNoData(PeerB, 0), RequestChunkMsg(PeerB, 0),
          RequestChunkMsgNoIndex(PeerB), HaveChunksMsg(PeerB, {0}),
          RequestMetadataMsg(PeerB), OtherMsg(PeerB)}
         \cup {MetadataMsg(PeerB, n, mime) : n \in 0 .. MaxChunks, mime \in Mimes}
         \cup {ChunkMsg(PeerB, i) : i \in 0 .. MaxChunks}
         \cup {MetadataMsg(Me, 1, "video/mp4"), ChunkMsg(Me, 0), RequestChunkMsg(Me, 0),
               HaveChunksMsg(Me, {0}), RequestMetadataMsg(Me), OtherMsg(Me)}

NoMetadata == [known |-> FALSE, totalChunks |-> 0, mimeType |-> ""]

\* message.from === this.myEndpointId
ViewerFromSelf(msg) == msg.from = Me

\* this.receivedChunks.has(index)
AlreadyHaveNever(index) == FALSE
AlreadyHave(index) == index \in vReceived

\* what handleMessage and the acquisition loop may change
viewState == <<vMetadata, vChunks, vReceived, vPending, vSrc, vLastAppended,
               vPeerChunks, vLoop, vOut, vCalls, vAssemblies, vHeldAtMeta>>

\* vBatchesLeft of a viewer whose timer may fire any number of times
Unlimited == -1

LoopOff == [stage |-> "off", i |-> 0, requested |-> 0]
LoopTimer == [stage |-> "timer", i |-> 0, requested |-> 0]
LoopStopped == [stage |-> "stopped", i |-> 0, requested |-> 0]
\* requestBatch has ended with the rejection of a send
LoopCrashed == [stage |-> "crashed", i |-> 0, requested |-> 0]

Here == [left |-> FALSE, sentFreed |-> FALSE]

\* how a send on the viewer's channel may end: a channel whose transport was freed
\* may reject it
SendOutcomes == IF vGone.left THEN BOOLEAN ELSE {TRUE}

\* if (this.metadata) return
MetadataKnownNever == FALSE
MetadataKnown == vMetadata.known

\* getProgress(): percent is the quotient percentOf / percentBy, times 100
GetProgressPerMessage ==
    LET total == IF vMetadata.known THEN vMetadata.totalChunks ELSE 0
        received == vChunkMsgs
    IN [received |-> received, total |-> total,
        percentOf |-> IF total > 0 THEN received ELSE 0,
        percentBy |-> IF total > 0 THEN total ELSE 1]
GetProgress ==
    LET total == IF vMetadata.known THEN vMetadata.totalChunks ELSE 0
        received == Cardinality(vReceived)
    IN [received |-> received, total |-> total,
        percentOf |-> IF total > 0 THEN received ELSE 0,
        percentBy |-> IF total > 0 THEN total ELSE 1]

\* the value of getProgress().percent is exactly n
PercentIs(progress, n) == progress.percentOf * 100 = n * progress.percentBy

\* handleMetadata -> initMediaSource -> startRequestingChunks
HandleMetadata(msg) ==
    IF MetadataKnown
    THEN UNCHANGED viewState
    ELSE /\ vMetadata' = [known |-> TRUE,
                          totalChunks |-> IF "totalChunks" \in msg.has
                                          THEN msg.totalChunks ELSE 0,
                          mimeType |-> IF "mimeType" \in msg.has /\ msg.mimeType # ""
                                       THEN msg.mimeType ELSE "video/mp4"]
         /\ vHeldAtMeta' = Cardinality(vReceived \cap (0 .. vMetadata'.totalChunks - 1))
         /\ vCalls' = [vCalls EXCEPT !.onMetadata = @ + 1,
                                     !.onReady = IF vVideoElement THEN @ + 1 ELSE @]
         /\ vLoop' = IF vVideoElement THEN LoopTimer ELSE vLoop
         /\ UNCHANGED <<vChunks, vReceived, vPending, vSrc, vLastAppended, vPeerChunks,
                        vOut, vAssemblies>>

\* tryProgressivePlay: sequential chunks from the start
RECURSIVE SequentialCount(_, _, _)
SequentialCount(chunks, i, total) ==
    IF i < total /\ i \in DOMAIN chunks
    THEN SequentialCount(chunks, i + 1, total)
    ELSE i

\* assembleAndPlay: the chunks 0 .. count-1 up to the first missing one, concatenated
RECURSIVE OrderedChunks(_, _, _)
OrderedChunks(chunks, i, count) ==
    IF i < count /\ i \in DOMAIN chunks
    THEN <<chunks[i]>> \o OrderedChunks(chunks, i + 1, count)
    ELSE <<>>

RECURSIVE BlobOf(_)
BlobOf(parts) == IF parts = <<>> THEN NoBytes ELSE Concat(parts[1], BlobOf(Tail(parts)))

\* assembleAndPlay(chunkCount): the assembly made, or none
Assembly(chunks, chunkCount, total) ==
    LET count == IF chunkCount # 0 THEN chunkCount ELSE total
        parts == OrderedChunks(chunks, 0, count)
    IN IF Len(parts) = 0
       THEN <<>>
       ELSE <<[count |-> count, total |-> total, parts |-> Len(parts),
               blob |-> BlobOf(parts)]>>

\* tryProgressivePlay: the assembly it makes, or none
ProgressivePlay(chunks, received, meta, src) ==
    LET total == meta.totalChunks
        seq == SequentialCount(chunks, 0, total)
        isWebM == meta.mimeType = "video/webm"
        hasAllChunks == Cardinality(received) >= total
    IN IF hasAllChunks /\ seq >= total
       THEN Assembly(chunks, seq, total)
       ELSE IF isWebM /\ seq * 100 >= WEBM_MIN_PERCENT * total /\ ~src
            THEN Assembly(chunks, seq, total)
            ELSE <<>>

\* the chunkData a video-chunk message for index i carries
ChunkData(i) == ChunkBytes(i, (i + 1) * VIDEO_CHUNK_SIZE)

\* handleChunk
HandleChunk(msg) ==
    IF "chunkIndex" \notin msg.has \/ "chunkData" \notin msg.has \/ AlreadyHave(msg.chunkIndex)
    THEN UNCHANGED viewState
    ELSE LET index == msg.chunkIndex
             chunks == MapSet(vChunks, index, ChunkData(index))
             received == vReceived \cup {index}
             play == vMetadata.known /\ vVideoElement
             made == IF play THEN ProgressivePlay(chunks, received, vMetadata, vSrc)
                     ELSE <<>>
         IN /\ vChunks' = chunks
            /\ vReceived' = received
            /\ vPending' = vPending \ {index}
            /\ vCalls' = IF vMetadata.known
                         THEN [vCalls EXCEPT !.onProgress =
                                  <<Cardinality(received), vMetadata.totalChunks>>]
                         ELSE vCalls
            /\ vLastAppended' =
                  IF play THEN SequentialCount(chunks, 0, vMetadata.totalChunks) - 1
                  ELSE vLastAppended
            /\ vAssemblies' = vAssemblies \o made
            /\ vSrc' = (vSrc \/ made # <<>>)
            /\ vOut' = IF Cardinality(received) % ANNOUNCE_EVERY = 0
                       THEN Handed(vOut, OutSignal("video-have-chunks", 0, 0, received))
                       ELSE vOut
            /\ UNCHANGED <<vMetadata, vPeerChunks, vLoop, vHeldAtMeta>>

\* handleChunkRequest: relay a held chunk
HandleChunkRequest(msg) ==
    IF "chunkIndex" \in msg.has /\ msg.chunkIndex \in DOMAIN vChunks
    THEN /\ vOut' = Handed(vOut, OutChunk(msg.chunkIndex + RELAY_OFFSET, msg.chunkIndex,
                                          vChunks[msg.chunkIndex]))
         /\ UNCHANGED <<vMetadata, vChunks, vReceived, vPending, vSrc, vLastAppended,
                        vPeerChunks, vLoop, vCalls, vAssemblies, vHeldAtMeta>>
    ELSE UNCHANGED viewState

\* handlePeerChunks
HandlePeerChunks(msg) ==
    IF "availableChunks" \in msg.has
    THEN /\ vPeerChunks' =
               MapSet(vPeerChunks, msg.from,
                      (IF msg.from \in DOMAIN vPeerChunks THEN vPeerChunks[msg.from]
                       ELSE {}) \cup msg.availableChunks)
         /\ UNCHANGED <<vMetadata, vChunks, vReceived, vPending, vSrc, vLastAppended,
                        vLoop, vOut, vCalls, vAssemblies, vHeldAtMeta>>
    ELSE UNCHANGED viewState

\* handleMessage -> handleVideoMessage
ViewerDispatch(msg) ==
    /\ vLast' = LastOf(msg)
    /\ vChunkMsgs' = IF /\ msg.type = "video-chunk" /\ ~ViewerFromSelf(msg)
                         /\ {"chunkIndex", "chunkData"} \subseteq msg.has
                      THEN vChunkMsgs + 1 ELSE vChunkMsgs
    /\ vOrder' = IF /\ msg.type = "video-chunk" /\ ~ViewerFromSelf(msg)
                     /\ {"chunkIndex", "chunkData"} \subseteq msg.has
                     /\ ~AlreadyHave(msg.chunkIndex)
                  THEN Append(vOrder, msg.chunkIndex) ELSE vOrder
    /\ IF ~IsVideoType(msg.type) \/ ViewerFromSelf(msg)
       THEN UNCHANGED viewState
       ELSE CASE msg.type = "video-metadata" -> HandleMetadata(msg)
              [] msg.type = "video-chunk" -> HandleChunk(msg)
              [] msg.type = "video-request-chunk" -> HandleChunkRequest(msg)
              [] msg.type = "video-have-chunks" -> HandlePeerChunks(msg)
              [] OTHER -> UNCHANGED viewState
    /\ UNCHANGED <<vVideoElement, vBatchesLeft, vGone, notView>>

\* a message of the channel is given to handleMessage
ViewerHandleMessage(msg) ==
    /\ ViewOn
    /\ ~vGone.left
    /\ evLeft > 0
    /\ evLeft' = evLeft - 1
    /\ ViewerDispatch(msg)
    /\ UNCHANGED vAsked

\* a peer answers the request for index j that is in flight
PeerDelivers(j) ==
    /\ scenario = "acquire"
    /\ j \in vAsked
    /\ vAsked' = vAsked \ {j}
    /\ ViewerDispatch(ChunkMsg(PeerB, j))
    /\ UNCHANGED evLeft

\* the request for index j, or its answer, is lost
RequestLost(j) ==
    /\ scenario = "acquire"
    /\ j \in vAsked
    /\ vAsked' = vAsked \ {j}
    /\ UNCHANGED <<evLeft, viewState, vVideoElement, vBatchesLeft, vChunkMsgs, vOrder,
                   vLast, vGone, notView>>

\* the page's stop routine for a viewer: viewer.destroy(), remote video src = '',
\* channel.destroy()
ViewerLeave ==
    /\ scenario = "viewLeave"
    /\ ~vGone.left
    /\ vGone' = [vGone EXCEPT !.left = TRUE]
    /\ vChunks' = <<>>
    /\ vReceived' = {}
    /\ vPending' = {}
    /\ vPeerChunks' = NoPeers
    /\ vSrc' = FALSE
    /\ UNCHANGED <<vMetadata, vLastAppended, vLoop, vOut, vCalls, vAssemblies, vHeldAtMeta,
                   vVideoElement, vBatchesLeft, vChunkMsgs, vOrder, vAsked, vLast, evLeft,
                   notView>>

\* the loop condition without its bound
BatchFullNever(requested) == FALSE

\* for (...; i < this.metadata.totalChunks && requested < 5; ...): the bound is reached
BatchFull(requested) == requested >= REQUEST_BATCH

\* requestBatch: the loop from index i on, and what follows the loop
BatchFrom(i, requested, pending) ==
    LET total == vMetadata.totalChunks
        wanted == {j \in i .. total - 1 : ~AlreadyHave(j) /\ j \notin pending}
    IN IF ~BatchFull(requested) /\ wanted # {}
       THEN LET j == CHOOSE x \in wanted : \A y \in wanted : x <= y IN
            \E ok \in SendOutcomes :
               IF ok
               THEN /\ vOut' = Handed(vOut, OutSignal("video-request-chunk", 0, j, {}))
                    /\ vAsked' = vAsked \cup {j}
                    /\ vLoop' = [stage |-> "send", i |-> j, requested |-> requested]
                    /\ vPending' = pending
                    /\ vGone' = [vGone EXCEPT !.sentFreed = @ \/ vGone.left]
               ELSE /\ vLoop' = LoopCrashed
                    /\ vPending' = pending
                    /\ UNCHANGED <<vOut, vAsked, vGone>>
       ELSE /\ vOut' = vOut
            /\ vAsked' = vAsked
            /\ vGone' = vGone
            /\ IF Cardinality(vReceived) >= total
               THEN /\ vLoop' = LoopStopped
                    /\ vPending' = pending
               ELSE /\ vLoop' = LoopTimer
                    /\ vPending' = IF Cardinality(pending) > 0 /\ requested = 0
                                   THEN {} ELSE pending

\* the timer of startRequestingChunks fires: requestBatch up to its first await
ViewerBatchStart ==
    /\ ViewOn
    /\ vLoop.stage = "timer"
    /\ vBatchesLeft # 0
    /\ vBatchesLeft' = IF vBatchesLeft = Unlimited THEN Unlimited ELSE vBatchesLeft - 1
    /\ BatchFrom(0, 0, vPending)
    /\ UNCHANGED <<vMetadata, vChunks, vReceived, vSrc, vLastAppended, vPeerChunks,
                   vCalls, vAssemblies, vHeldAtMeta, vVideoElement, vLast, vChunkMsgs,
                   vOrder, evLeft, notView>>

\* requestChunkFromPeers(i) has resolved: pendingRequests.add(i); requested++
\* (or it has rejected, and requestBatch ends)
ViewerBatchResume ==
    /\ ViewOn
    /\ vLoop.stage = "send"
    /\ \E ok \in SendOutcomes :
          IF ok
          THEN BatchFrom(vLoop.i + 1, vLoop.requested + 1, vPending \cup {vLoop.i})
          ELSE /\ vLoop' = LoopCrashed
               /\ UNCHANGED <<vOut, vAsked, vPending, vGone>>
    /\ UNCHANGED <<vMetadata, vChunks, vReceived, vSrc, vLastAppended, vPeerChunks,
                   vCalls, vAssemblies, vHeldAtMeta, vVideoElement, vLast, vChunkMsgs,
                   vOrder, evLeft, vBatchesLeft, notView>>

ViewInit(element, batches) ==
    /\ vMetadata = NoMetadata
    /\ vChunks = <<>>
    /\ vReceived = {}
    /\ vPending = {}
    /\ vVideoElement = element
    /\ vSrc = FALSE
    /\ vLastAppended = -1
    /\ vPeerChunks = NoPeers
    /\ vLoop = LoopOff
    /\ vBatchesLeft = batches
    /\ vOut = <<>>
    /\ vCalls = [onMetadata |-> 0, onReady |-> 0, onProgress |-> <<0, 0>>]
    /\ vAssemblies = <<>>
    /\ vHeldAtMeta = -1
    /\ vChunkMsgs = 0
    /\ vOrder = <<>>
    /\ vAsked = {}
    /\ vGone = Here
    /\ vLast = NoMsg

ViewOff == ViewInit(FALSE, 0)

-----------------------------------------------------------------------------
(* The module's streaming node: initWasm / getStreamingNode / cleanup *)

MaxCallers == 2
MaxCleanups == 1

NodeCallers == 1 .. MaxCallers

\* the exported functions that begin with `await getStreamingNode()`
NodeOps == {"getStreamingNode", "getEndpointId", "createStream", "joinStream"}

\* streamingNode = null
NoNode == 0

NotCalled == [op |-> "", stage |-> "idle", node |-> NoNode]

NodeOn == scenario = "node"

NodeInit(cleanups) ==
    /\ wasm = FALSE
    /\ wasmInitialized = FALSE
    /\ streamingNode = NoNode
    /\ spawned = 0
    /\ callers = [c \in NodeCallers |-> NotCalled]
    /\ cleanupStage = "idle"
    /\ cleanupsLeft = cleanups
    /\ freedNodes = {}

NodeOff == NodeInit(0)

\* !streamingNode
NodeMissing == streamingNode = NoNode

\* getStreamingNode from `if (!streamingNode && wasm)` to its next await or its return
SpawnOrReturn(c, op) ==
    IF NodeMissing /\ wasm
    THEN /\ spawned' = spawned + 1
         /\ callers' = [callers EXCEPT ![c] = [op |-> op, stage |-> "spawn",
                                               node |-> spawned + 1]]
    ELSE /\ spawned' = spawned
         /\ callers' = [callers EXCEPT ![c] =
                           IF streamingNode = NoNode
                           THEN [op |-> op, stage |-> "failed", node |-> NoNode]
                           ELSE [op |-> op, stage |-> "done", node |-> streamingNode]]

\* a call of getStreamingNode(), directly or as the first statement of
\* getEndpointId / createStream / joinStream, up to its first await
GetStreamingNodeCall(c, op) ==
    /\ NodeOn
    /\ callers[c].stage = "idle"
    /\ IF ~wasmInitialized
       THEN /\ callers' = [callers EXCEPT ![c] =
                              [op |-> op, stage |-> IF wasm THEN "default" ELSE "import",
                               node |-> NoNode]]
            /\ spawned' = spawned
       ELSE SpawnOrReturn(c, op)
    /\ UNCHANGED <<wasm, wasmInitialized, streamingNode, cleanupStage, cleanupsLeft,
                   freedNodes, notNode>>

\* loadWasmModule: the dynamic import settles; wasm = module, then module.default()
ImportSettles(c) ==
    /\ NodeOn
    /\ callers[c].stage = "import"
    /\ \E ok \in BOOLEAN :
          IF ok
          THEN /\ wasm' = TRUE
               /\ callers' = [callers EXCEPT ![c].stage = "default"]
          ELSE /\ wasm' = wasm
               /\ callers' = [callers EXCEPT ![c].stage = "failed"]
    /\ UNCHANGED <<wasmInitialized, streamingNode, spawned, cleanupStage, cleanupsLeft,
                   freedNodes, notNode>>

\* initWasm: module.default() settles; wasmInitialized = true
DefaultSettles(c) ==
    /\ NodeOn
    /\ callers[c].stage = "default"
    /\ \E ok \in BOOLEAN :
          IF ok
          THEN /\ wasmInitialized' = TRUE
               /\ callers' = [callers EXCEPT ![c].stage = "inited"]
          ELSE /\ wasmInitialized' = wasmInitialized
               /\ callers' = [callers EXCEPT ![c].stage = "failed"]
    /\ UNCHANGED <<wasm, streamingNode, spawned, cleanupStage, cleanupsLeft,
                   freedNodes, notNode>>

\* getStreamingNode resumes after `await initWasm()`
InitWasmReturns(c) ==
    /\ NodeOn
    /\ callers[c].stage = "inited"
    /\ SpawnOrReturn(c, callers[c].op)
    /\ UNCHANGED <<wasm, wasmInitialized, streamingNode, cleanupStage, cleanupsLeft,
                   freedNodes, notNode>>

\* streamingNode = await wasm.StreamingNode.spawn(); return streamingNode
SpawnSettles(c) ==
    /\ NodeOn
    /\ callers[c].stage = "spawn"
    /\ \E ok \in BOOLEAN :
          IF ok
          THEN /\ streamingNode' = callers[c].node
               /\ callers' = [callers EXCEPT ![c].stage = "done"]
          ELSE /\ streamingNode' = streamingNode
               /\ callers' = [callers EXCEPT ![c] =
                                 [op |-> @.op, stage |-> "failed", node |-> NoNode]]
    /\ UNCHANGED <<wasm, wasmInitialized, spawned, cleanupStage, cleanupsLeft,
                   freedNodes, notNode>>

\* cleanup() up to `await streamingNode.shutdown()`
CleanupCall ==
    /\ NodeOn
    /\ cleanupStage = "idle"
    /\ cleanupsLeft > 0
    /\ cleanupsLeft' = cleanupsLeft - 1
    /\ cleanupStage' = IF streamingNode # NoNode THEN "shutdown" ELSE "idle"
    /\ UNCHANGED <<wasm, wasmInitialized, streamingNode, spawned, callers, freedNodes,
                   notNode>>

\* shutdown() has resolved: streamingNode.free(); streamingNode = null
CleanupSettles ==
    /\ NodeOn
    /\ cleanupStage = "shutdown"
    /\ cleanupStage' = "idle"
    /\ freedNodes' = freedNodes \cup {streamingNode}
    /\ streamingNode' = NoNode
    /\ UNCHANGED <<wasm, wasmInitialized, spawned, callers, cleanupsLeft, notNode>>

-----------------------------------------------------------------------------
(* Specifications *)

vars == <<scenario, evLeft, tagVars, nodeVars, chanVars, sigVars, bcastVars, viewVars>>

\* tag packing applied to every triple of the packing range
SpecTagInit ==
    /\ scenario = "tag" /\ evLeft = 0
    /\ TagInit /\ NodeOff /\ ChanOff /\ LiveOff /\ BcastOff /\ ViewOff
SpecTagNext == TagPack \/ TagDecode
SpecTag == SpecTagInit /\ [][SpecTagNext]_vars

\* one channel receiving what a remote broadcastChunk sends
FragInit ==
    \/ scenario = "frag" /\ ChanInit("any", MaxDup, MaxTicks, 1)
    \/ scenario = "fragMany" /\ ChanInit("any", 0, 0, MaxCalls)
    \/ scenario = "fragBig" /\ ChanInit("fifo", 0, 1, 1)
SpecFragInit == evLeft = 0 /\ TagOff /\ NodeOff /\ FragInit /\ LiveOff /\ BcastOff /\ ViewOff
SpecFragNext ==
    \/ \E len \in PayloadLens : BroadcastChunkCall(len)
    \/ BroadcastChunkSend
    \/ \E k \in 1 .. MaxInFlight, consume \in BOOLEAN, stamped \in BOOLEAN :
          ReceiveMediaChunk(k, consume, stamped)
    \/ Tick
SpecFrag == SpecFragInit /\ [][SpecFragNext]_vars

\* a sender whose transport may reject any send
SendFailScenario ==
    /\ scenario = "fragFail"
    /\ evLeft = 0
    /\ ChanInit("fifo", 0, 0, MaxCalls)
    /\ TagOff /\ NodeOff /\ LiveOff /\ BcastOff /\ ViewOff
SendFailNext ==
    \/ \E len \in PayloadLens : BroadcastChunkCall(len)
    \/ BroadcastChunkSend
    \/ BroadcastChunkRejected
    \/ \E k \in 1 .. MaxInFlight, stamped \in BOOLEAN : ReceiveMediaChunk(k, TRUE, stamped)
SpecSendFail == SendFailScenario /\ [][SendFailNext]_vars

\* a channel that receives the parts two peers send under the same frame number
RecvTwoScenario ==
    /\ scenario = "recvTwo"
    /\ evLeft = MaxRecvEvents
    /\ ChanInit("off", 0, 0, 0)
    /\ TagOff /\ NodeOff /\ LiveOff /\ BcastOff /\ ViewOff
RecvTwoNext == \E seq \in FrameTags, from \in Senders : InboundPartFrom(seq, from)
SpecRecvTwo == RecvTwoScenario /\ [][RecvTwoNext]_vars

\* a channel that receives the events of other peers
RecvScenario ==
    /\ scenario = "recv"
    /\ evLeft = MaxRecvEvents
    /\ ChanInit("off", 0, MaxTicks, 0)
    /\ TagOff /\ NodeOff /\ LiveOff /\ BcastOff /\ ViewOff
RecvNext ==
    \/ \E seq \in RecvTags, throws \in BOOLEAN : InboundPart(seq, throws)
    \/ \E throws \in BOOLEAN : InboundLagged(throws)
    \/ ReadFails
    \/ StopListening
    \/ Tick
SpecRecv == RecvScenario /\ [][RecvNext]_vars

\* a live session (broadcasting with a live camera, or watching) and its peer
SigScenario ==
    /\ scenario = "live"
    /\ evLeft = MaxSignals
    /\ \E m \in {"none", "live"} : LiveInit(m, MaxLocalIce, FALSE)
    /\ TagOff /\ NodeOff /\ ChanOff /\ BcastOff /\ ViewOff
\* a live session receiving a longer run of signals of one peer
IceScenario ==
    /\ scenario = "liveIce"
    /\ evLeft = MaxIceSignals
    /\ \E m \in {"none", "live"} : LiveInit(m, 0, FALSE)
    /\ TagOff /\ NodeOff /\ ChanOff /\ BcastOff /\ ViewOff
\* a viewer that has joined a live stream and asks for an offer
WatchScenario ==
    /\ scenario = "watch"
    /\ evLeft = MaxWatchSignals
    /\ LiveInit("none", 0, TRUE)
    /\ TagOff /\ NodeOff /\ ChanOff /\ BcastOff /\ ViewOff
\* a live session, broadcasting or watching, that is stopped at any point
StopScenario ==
    /\ scenario = "liveStop"
    /\ evLeft = MaxStopEvents
    /\ \/ LiveInit("live", 0, FALSE)
       \/ LiveInit("none", 0, TRUE)
    /\ TagOff /\ NodeOff /\ ChanOff /\ BcastOff /\ ViewOff
SigNext ==
    \/ StopStream
    \/ \E ok \in BOOLEAN : RetryTick(ok)
    \/ \E sig \in SignalsIn : ReceiveSignal(sig)
    \/ \E t \in tasks : ResumeCreateOffer(t)
    \/ \E t \in tasks : ResumeSetRemote(t)
    \/ \E t \in tasks : ResumeAddIce(t)
    \/ \E t \in tasks : ResumeCreateAnswer(t)
    \/ \E h \in 1 .. Len(handles) : LocalIceCandidate(h)
    \/ \E p \in RemotePeers : NeighborDown(p)
    \/ TrackEnded
SpecSig ==
    (SigScenario \/ IceScenario \/ WatchScenario \/ StopScenario) /\ [][SigNext]_vars

\* a file viewer and the messages of its channel
ViewScenario ==
    /\ scenario = "view"
    /\ evLeft = MaxViewMsgs
    /\ \E element \in BOOLEAN : ViewInit(element, MaxBatches)
    /\ TagOff /\ NodeOff /\ ChanOff /\ LiveOff /\ BcastOff
\* a viewer of a file of ExampleChunks chunks, sent to it whole
FileScenario ==
    /\ scenario = "viewFile"
    /\ evLeft = ExampleChunks + 1
    /\ ViewInit(TRUE, 1)
    /\ TagOff /\ NodeOff /\ ChanOff /\ LiveOff /\ BcastOff
ViewNext ==
    \/ \E msg \in ViewMsgsIn : ViewerHandleMessage(msg)
    \/ ViewerBatchStart
    \/ ViewerBatchResume
SpecView == (ViewScenario \/ FileScenario) /\ [][ViewNext]_vars

\* a viewer of a file of more chunks than one batch requests
BatchScenario ==
    /\ scenario = "batch"
    /\ evLeft = MaxBatchMsgs
    /\ ViewInit(TRUE, MaxBatches)
    /\ TagOff /\ NodeOff /\ ChanOff /\ LiveOff /\ BcastOff
SpecBatch == BatchScenario /\ [][ViewNext]_vars

\* a viewer that other viewers ask for chunks, of a small and of a large file
RelayScenario ==
    /\ scenario = "relay"
    /\ evLeft = MaxRelayMsgs
    /\ ViewInit(FALSE, 0)
    /\ TagOff /\ NodeOff /\ ChanOff /\ LiveOff /\ BcastOff
RelayNext == \E msg \in ViewMsgsIn : ViewerHandleMessage(msg)
SpecRelay == RelayScenario /\ [][RelayNext]_vars

\* a viewer that leaves the stream at any point
LeaveScenario ==
    /\ scenario = "viewLeave"
    /\ evLeft = MaxLeaveMsgs
    /\ ViewInit(TRUE, MaxBatches)
    /\ TagOff /\ NodeOff /\ ChanOff /\ LiveOff /\ BcastOff
LeaveNext ==
    \/ \E msg \in ViewMsgsIn : ViewerHandleMessage(msg)
    \/ ViewerBatchStart
    \/ ViewerBatchResume
    \/ ViewerLeave
SpecLeave == LeaveScenario /\ [][LeaveNext]_vars

\* a viewer with a video element whose timer fires fairly, whose sends complete
\* and whose peers, which may lose any request, deliver every chunk that keeps
\* being requested; up to MaxAcquireMsgs other messages reach it
AcquireScenario ==
    /\ scenario = "acquire"
    /\ evLeft = MaxAcquireMsgs
    /\ ViewInit(TRUE, Unlimited)
    /\ TagOff /\ NodeOff /\ ChanOff /\ LiveOff /\ BcastOff
AcquireNext ==
    \/ \E msg \in ViewMsgsIn : ViewerHandleMessage(msg)
    \/ ViewerBatchStart
    \/ ViewerBatchResume
    \/ \E j \in 0 .. AcquireChunks - 1 : PeerDelivers(j)
    \/ \E j \in 0 .. AcquireChunks - 1 : RequestLost(j)
SpecAcquire ==
    /\ AcquireScenario /\ [][AcquireNext]_vars
    /\ WF_vars(ViewerBatchStart)
    /\ WF_vars(ViewerBatchResume)
    /\ \A j \in 0 .. AcquireChunks - 1 : SF_vars(PeerDelivers(j))

\* a file broadcaster and the messages of its channel
BcastScenario ==
    /\ scenario = "bcast"
    /\ evLeft = MaxBcastMsgs
    /\ \E size \in FileSizes : BcastInit(size, "video/mp4", MaxPrepares, NoRuns)
    /\ TagOff /\ NodeOff /\ ChanOff /\ LiveOff /\ ViewOff
\* a file broadcaster that is prepared, started, stopped and sent requests:
\* MaxRunEvents calls and messages in all
RunScenario ==
    /\ scenario = "bcastRun"
    /\ evLeft = MaxRunEvents
    /\ \E size \in RunFileSizes :
          BcastInit(size, "video/mp4", 1, [start |-> MaxRunEvents, stop |-> MaxRunEvents])
    /\ TagOff /\ NodeOff /\ ChanOff /\ LiveOff /\ ViewOff
\* a broadcast that is started once and stopped once, and the requests of its peers
ServeScenario ==
    /\ scenario = "bcastServe"
    /\ evLeft = 2 + MaxServeMsgs
    /\ BcastInit(MaxChunks * VIDEO_CHUNK_SIZE, "video/mp4", 1, [start |-> 1, stop |-> 1])
    /\ TagOff /\ NodeOff /\ ChanOff /\ LiveOff /\ ViewOff
BcastNext ==
    \/ BroadcasterPrepare
    \/ \E msg \in BcastMsgsIn : BroadcasterHandleMessage(msg)
    \/ StartBroadcast
    \/ StartPrepared
    \/ StartEmission
    \/ ChunkSent
    \/ EmissionTimer
    \/ StopBroadcast
SpecBcast == (BcastScenario \/ RunScenario \/ ServeScenario) /\ [][BcastNext]_vars

\* the three message handlers of one node side by side
AppScenario ==
    /\ scenario = "app"
    /\ evLeft = MaxAppEvents
    /\ LiveInit("none", 0, FALSE)
    /\ BcastInit(VIDEO_CHUNK_SIZE + 1, "video/mp4", 1, NoRuns)
    /\ ViewInit(TRUE, 1)
    /\ TagOff /\ NodeOff /\ ChanOff
SpecAppInit == SigScenario \/ BcastScenario \/ AppScenario
SpecAppNext ==
    \/ \E sig \in SignalsIn : ReceiveSignal(sig)
    \/ \E t \in tasks : ResumeCreateOffer(t)
    \/ \E t \in tasks : ResumeSetRemote(t)
    \/ \E t \in tasks : ResumeAddIce(t)
    \/ \E t \in tasks : ResumeCreateAnswer(t)
    \/ \E h \in 1 .. Len(handles) : LocalIceCandidate(h)
    \/ \E p \in RemotePeers : NeighborDown(p)
    \/ TrackEnded
    \/ BroadcasterPrepare
    \/ \E msg \in BcastMsgsIn : BroadcasterHandleMessage(msg)
    \/ \E msg \in ViewMsgsIn : ViewerHandleMessage(msg)
    \/ ViewerBatchStart
    \/ ViewerBatchResume
SpecApp == SpecAppInit /\ [][SpecAppNext]_vars

-----------------------------------------------------------------------------
(* Fragmenter / reassembler properties *)

DispatchesOf(c) ==
    {i \in DOMAIN dispatched : FrameNumberOf(dispatched[i].sequence) = calls[c].seq}

\* C1 (round trip): every buffer the receive path dispatches is the whole payload
\* of the broadcastChunk call whose frame number it carries, and once a call has
\* returned and every part it transmitted was delivered, its payload has been
\* dispatched; for every payload length up to 10,000,000 and every arrival order.
C1_RoundTrip ==
    /\ \A i \in DOMAIN dispatched :
          \E c \in DOMAIN calls :
             /\ FrameNumberOf(dispatched[i].sequence) = calls[c].seq
             /\ dispatched[i].data = Whole(c, calls[c].len)
    /\ (sendPhase = "returned" /\ net = <<>>) =>
          \A c \in DOMAIN calls :
             \E i \in DOMAIN dispatched : dispatched[i].data = Whole(c, calls[c].len)

\* the same statement restricted to payloads of at most 99 parts
RoundTripWithinPacking ==
    (\A c \in DOMAIN calls : TotalPartsFor(calls[c].len) < PART_BASE) => C1_RoundTrip

\* C2 (idempotence): a multi-part frame is dispatched to the listeners at most
\* once, also when the transport delivers its complete set of parts twice.
C2_DispatchedAtMostOnce ==
    \A c \in DOMAIN calls :
       Cardinality({i \in DispatchesOf(c) : dispatched[i].multi}) <= 1

\* C3 (staleness): a multi-part frame whose completing part arrives more than the
\* 5 second window after its first part is never dispatched.
C3_StaleNeverDispatched ==
    \A i \in DOMAIN dispatched : dispatched[i].multi => dispatched[i].age <= STALE_MS

\* C4 (tag packing invertibility): for every frameNumber >= 0, 0 <= partNumber < 100
\* and 0 <= totalParts < 100, decoding the packed tag gives back the triple.
C4_TagInvertible == tagPhase = "decoded" => tagOut = tagIn

C4_Witness ==
    /\ tagPhase = "decoded"
    /\ tagIn = [f |-> 214747, p |-> PART_BASE - 1, t |-> PART_BASE - 1]
    /\ tagPacked = 2147479999

\* C5 (send boundary): a returned broadcastChunk call has made exactly one
\* transmission, tagged frameNumber * 10000 and carrying the whole payload, when
\* the payload has at most MAX_CHUNK_SIZE bytes; exactly 2 for MAX_CHUNK_SIZE + 1
\* bytes; and in general the n = ceil(L / MAX_CHUNK_SIZE) for L > MAX_CHUNK_SIZE.
C5_SendBoundary ==
    sendPhase = "returned" =>
       LET n == Len(sentLog)
       IN /\ sendData <= MAX_CHUNK_SIZE =>
                /\ n = 1
                /\ sentLog[1].sequence = sendSeq * TAG_BASE
                /\ sentLog[1].data = Whole(sendPid, sendData)
          /\ sendData = MAX_CHUNK_SIZE + 1 => n = 2
          /\ sendData > MAX_CHUNK_SIZE =>
                /\ (n - 1) * MAX_CHUNK_SIZE < sendData
                /\ sendData <= n * MAX_CHUNK_SIZE

C5_Witness ==
    /\ sendPhase = "returned"
    /\ sendData = MAX_CHUNK_SIZE + 1
    /\ Len(sentLog) = 2
    /\ sentLog[2].data = SliceOf(sendPid, MAX_CHUNK_SIZE, MAX_CHUNK_SIZE + 1)

\* C6 (part-count guard): a payload that needs more than 99 sub-chunks is rejected
\* before anything is transmitted, so every transmitted tag decodes to the frame
\* number the caller passed, with partNumber and totalParts below 100.
C6_PartCountGuard ==
    /\ (sendPhase # "idle" /\ TotalPartsFor(sendData) >= PART_BASE) => sentLog = <<>>
    /\ \A i \in DOMAIN sentLog :
          /\ FrameNumberOf(sentLog[i].sequence) = sendSeq
          /\ PartNumberOf(sentLog[i].sequence) \in 0 .. (PART_BASE - 1)
          /\ TotalPartsOf(sentLog[i].sequence) < PART_BASE


-----------------------------------------------------------------------------
(* Signaling properties *)

HandlesMadeFor(p) == Cardinality({h \in 1 .. Len(handles) : handles[h].peer = p})

Settled(p) ==
    /\ p \in DOMAIN peerConnections
    /\ handles[peerConnections[p]].remoteDescription
    /\ \A t \in tasks : t.from # p

\* C7: once the handle of peer P has its remote description applied and no handler
\* invocation for P is still suspended, the candidates applied to the handle are
\* exactly the candidates received from P, in the order they were received (stated
\* for a peer that has had one handle only, so that no candidate belongs to an
\* earlier handle).
C7_IceAppliedInOrder ==
    \A p \in RemotePeers :
        (Settled(p) /\ HandlesMadeFor(p) = 1)
            => handles[peerConnections[p]].applied = recvIce[p]

\* (auxiliary) for such a peer no candidate is lost and none is applied twice
IceAppliedOnce ==
    \A p \in RemotePeers :
        (Settled(p) /\ HandlesMadeFor(p) = 1)
            => LET a == handles[peerConnections[p]].applied IN
               /\ Len(a) = Len(recvIce[p])
               /\ {a[k] : k \in 1 .. Len(a)} = 1 .. Len(recvIce[p])

\* C8: a request-offer handled while the media stream is absent or has no live
\* track creates no handle, leaves the peer table alone and sends nothing.
C8_NoOfferWithoutLiveMedia ==
    [][(media # "live"
        /\ \E sig \in SignalsIn : sig.type = "webrtc-request-offer" /\ ReceiveSignal(sig))
       => UNCHANGED <<peerConnections, handles, pendingIce, arrays, tasks, sigOut>>]_vars

C8_Witness ==
    /\ scenario = "live"
    /\ lastSig.type = "webrtc-request-offer"
    /\ lastSig.from = PeerB
    /\ lastSig.media = "ended"
    /\ handles = <<>>
    /\ peerConnections = NoPeers
    /\ sigOut = <<>>

\* the request-offer signals handed to the channel
RequestOffersSent == {k \in 1 .. Len(sigOut) : sigOut[k].type = "webrtc-request-offer"}

\* C13: the viewer's request-offer retry makes at most 10 sends, a failing send is
\* caught and raises nothing, and when no connection is ever established the timer
\* is cleared by the firing that follows attempt 10, all 10 attempts having been made.
C13_RetryCeiling ==
    /\ retryAttempts <= MAX_RETRIES
    /\ Cardinality(RequestOffersSent) <= retryAttempts
    /\ ~retryError
    /\ retryCount <= MAX_RETRIES + 1
    /\ retryCount > MAX_RETRIES => ~retryOn
    /\ (scenario = "watch" /\ ~retryOn /\ handles = <<>>)
          => (retryCount = MAX_RETRIES + 1 /\ retryAttempts = MAX_RETRIES)

C13_Witness ==
    /\ scenario = "watch"
    /\ ~retryOn
    /\ handles = <<>>
    /\ evLeft = 0
    /\ retryCount = MAX_RETRIES + 1
    /\ retryAttempts = MAX_RETRIES
    /\ Cardinality(RequestOffersSent) = MAX_RETRIES - 1

\* the handles created for peer p after it last left
HandlesSinceLeft(p) ==
    {h \in 1 .. Len(handles) : handles[h].peer = p /\ h > leftAt[p].handles}

\* a neighbor-left event closes the peer's handle and removes it from the table
PeerLeftClosesHandle ==
    [][\A p \in RemotePeers :
          (NeighborDown(p) /\ p \in DOMAIN peerConnections)
             => /\ p \notin DOMAIN peerConnections'
                /\ handles'[peerConnections[p]].closed]_vars

\* a neighbor-left event discards the peer's queue of pending candidates
PeerLeftDiscardsQueue ==
    [][\A p \in RemotePeers : NeighborDown(p) => p \notin DOMAIN pendingIce']_vars

\* no candidate received before the peer left is applied to a later handle
NoCandidateAcrossLeave ==
    \A p \in RemotePeers :
        leftAt[p] # NeverLeft
            => \A h \in HandlesSinceLeft(p) :
                  \A k \in 1 .. Len(handles[h].applied) :
                      handles[h].applied[k] > leftAt[p].ice

\* C22: a neighbor-left event for P closes P's handle, removes it from the peer
\* table and discards P's queue of pending candidates, so that no candidate queued
\* before P left is applied to a handle created for P afterwards.
C22_PeerLeftCleanup ==
    /\ PeerLeftClosesHandle
    /\ PeerLeftDiscardsQueue
    /\ []NoCandidateAcrossLeave

\* the handles that were in the peer table when the stop routine ran are closed;
\* stated in the step of the routine
StopClosesTable ==
    [][StopStream
          => \A p \in DOMAIN peerConnections : handles'[peerConnections[p]].closed]_vars

\* the session once the stop routine has run
StoppedState ==
    /\ ~session.presence
    /\ ~retryOn
    /\ peerConnections = NoPeers
    /\ pendingIce = NoPeers
    /\ ~liveChannel
    /\ ~session.listening
    /\ session.freed

\* C23: once the stop routine of the live session has run, in whatever state the
\* session was, the presence and retry timers are cleared, every handle of the peer
\* table has been closed, the peer table and the pending-candidate table are empty
\* and the channel is destroyed (not listening, transport freed).
C23_StopCancelsSession ==
    /\ StopClosesTable
    /\ [](session.stops > 0 => StoppedState)

C23_Witness ==
    /\ session.stops = 1
    /\ StoppedState
    /\ \E h \in 1 .. Len(handles) : handles[h].closed /\ handles[h].role = "viewer"
    /\ arrays # <<>>
    /\ tasks # {}
    /\ retryCount >= 1

-----------------------------------------------------------------------------
(* Self-message exclusion *)

\* C9: a message whose `from` is the local endpoint identity changes nothing and
\* sends nothing, whatever its type, in the live signal handler, in
\* VideoFileBroadcaster.handleMessage and in VideoFileViewer.handleMessage.
C9_SelfMessagesIgnored ==
    [][/\ (\E sig \in SignalsIn : sig.from = Me /\ ReceiveSignal(sig))
            => UNCHANGED <<liveChannel, media, liveState, iceLeft>>
       /\ (\E msg \in BcastMsgsIn : msg.from = Me /\ BroadcasterHandleMessage(msg))
            => UNCHANGED <<bFileSize, bcastState>>
       /\ (\E msg \in ViewMsgsIn : msg.from = Me /\ ViewerHandleMessage(msg))
            => UNCHANGED <<viewState, vVideoElement, vBatchesLeft>>]_vars

\* each of the three handlers has just been given a message of its own node that
\* it would have acted on had it come from a peer
C9_Witness ==
    /\ scenario = "app"
    /\ lastSig.from = Me /\ lastSig.type = "webrtc-offer"
    /\ handles = <<>> /\ sigOut = <<>>
    /\ bLast = LastOf(RequestChunkMsg(Me, 0))
    /\ bPrepared /\ HasChunk(0) /\ bOut = <<>> /\ bPeerRequests = <<>>
    /\ vLast = LastOf(MetadataMsg(Me, 1, "video/mp4"))
    /\ ~vMetadata.known /\ vLoop = LoopOff /\ vOut = <<>>

-----------------------------------------------------------------------------
(* File exchange properties *)

FullAssemblies ==
    {k \in 1 .. Len(vAssemblies) : vAssemblies[k].count = vAssemblies[k].total}

\* the viewer has a video element, knows the metadata of a file of N >= 1 chunks
\* and has received exactly the chunks 0 .. N-1
ReceivedWholeFile ==
    /\ vMetadata.known
    /\ vMetadata.totalChunks >= 1
    /\ vVideoElement
    /\ vReceived = 0 .. vMetadata.totalChunks - 1

\* exactly one assembly of the whole file was made: the chunks 0 .. N-1 in index order
OneFullAssembly ==
    LET n == vMetadata.totalChunks IN
    /\ Cardinality(vReceived) = n
    /\ DOMAIN vChunks = 0 .. n - 1
    /\ Cardinality(FullAssemblies) = 1
    /\ \A k \in FullAssemblies :
          /\ vAssemblies[k].parts = n
          /\ vAssemblies[k].blob = SliceOf("file", 0, n * VIDEO_CHUNK_SIZE)

\* C10: a viewer that has received all N chunks of the file, in any order and with
\* duplicates, holds N chunks and has made exactly one full assembly, which is the
\* chunks 0 .. N-1 in index order.
C10_OneFullAssembly ==
    ReceivedWholeFile => OneFullAssembly

\* the same statement for the exchanges in which the metadata was learned while a
\* chunk of the file was still missing
FullAssemblyWhenMetadataFirst ==
    (ReceivedWholeFile /\ vHeldAtMeta < vMetadata.totalChunks) => OneFullAssembly

\* the exchanges in which every chunk of the file was held when the metadata
\* arrived end without any assembly
NoAssemblyWhenChunksFirst ==
    (ReceivedWholeFile /\ vHeldAtMeta = vMetadata.totalChunks) => vAssemblies = <<>>

MetadataFirstWholeFile ==
    /\ ReceivedWholeFile
    /\ vMetadata.totalChunks = MaxChunks
    /\ vHeldAtMeta > 0
    /\ vHeldAtMeta < vMetadata.totalChunks
    /\ vChunkMsgs > MaxChunks
    /\ vLast = LastOf(ChunkMsg(PeerB, 0))
    /\ Len(vAssemblies) = 1

\* concurrent callers of getStreamingNode and one cleanup()
NodeScenario ==
    /\ scenario = "node" /\ evLeft = 0
    /\ TagOff /\ NodeInit(MaxCleanups) /\ ChanOff /\ LiveOff /\ BcastOff /\ ViewOff

NodeNext ==
    \/ \E c \in NodeCallers, op \in NodeOps : GetStreamingNodeCall(c, op)
    \/ \E c \in NodeCallers : ImportSettles(c)
    \/ \E c \in NodeCallers : DefaultSettles(c)
    \/ \E c \in NodeCallers : InitWasmReturns(c)
    \/ \E c \in NodeCallers : SpawnSettles(c)
    \/ CleanupCall
    \/ CleanupSettles

SpecNode == NodeScenario /\ [][NodeNext]_vars

-----------------------------------------------------------------------------
(* Viewer properties *)

\* C11: once the viewer knows the metadata of a file of N chunks and has received
\* the chunks 0 .. N-1, in any order, getProgress() is received N, total N,
\* percent 100.
C11_ProgressComplete ==
    (/\ vMetadata.known
     /\ vMetadata.totalChunks >= 1
     /\ vReceived = 0 .. vMetadata.totalChunks - 1)
        => /\ GetProgress.received = vMetadata.totalChunks
           /\ GetProgress.total = vMetadata.totalChunks
           /\ PercentIs(GetProgress, 100)

C11_Witness ==
    /\ scenario = "viewFile"
    /\ vMetadata.known
    /\ vOrder = <<2, 0, 3, 1>>
    /\ GetProgress.received = ExampleChunks
    /\ GetProgress.total = ExampleChunks
    /\ PercentIs(GetProgress, 100)

\* C18: once the viewer has recorded metadata, a further video-metadata message,
\* with the same or other fields, changes nothing: the recorded metadata stays, no
\* callback is made and the acquisition loop is not started again.
C18_MetadataOnce ==
    [][(vMetadata.known /\ vLast'.type = "video-metadata" /\ evLeft' # evLeft)
          => \A msg \in ViewMsgsIn :
                (msg.type = "video-metadata" /\ ViewerHandleMessage(msg))
                   => UNCHANGED viewState]_vars

C18_Witness ==
    /\ scenario = "view"
    /\ vLast = LastOf(MetadataMsg(PeerB, 1, "video/mp4"))
    /\ vMetadata = [known |-> TRUE, totalChunks |-> MaxChunks, mimeType |-> "video/webm"]
    /\ vHeldAtMeta = 0
    /\ vReceived = {0}
    /\ vCalls.onMetadata = 1
    /\ vCalls.onReady = 1
    /\ vLoop.stage = "send"

\* the request the viewer hands to the channel in this step, if any
RequestSent ==
    IF Len(vOut') > Len(vOut) /\ vOut'[Len(vOut')].type = "video-request-chunk"
    THEN {vOut'[Len(vOut')].chunkIndex}
    ELSE {}

\* C19: the viewer never sends a video-request-chunk for an index it has received.
C19_NoRequestForReceived ==
    [][\A j \in RequestSent : j \notin vReceived /\ j \notin vReceived']_vars

C19_Witness ==
    /\ vMetadata.known
    /\ vMetadata.totalChunks = MaxChunks
    /\ vReceived = {0}
    /\ vLoop = [stage |-> "send", i |-> 1, requested |-> 1]
    /\ vOut = <<OutSignal("video-request-chunk", 0, 0, {}),
                OutSignal("video-request-chunk", 0, 1, {})>>

\* every index of the file is received
AllIndicesReceived ==
    vMetadata.known /\ (0 .. vMetadata.totalChunks - 1) \subseteq vReceived

\* once every index is received, no request is sent and no timer is set
AcquisitionStopsWhenComplete ==
    [][AllIndicesReceived
          => /\ RequestSent = {}
             /\ vLoop'.stage = "timer" => vLoop.stage = "timer"
             /\ vLoop.stage = "stopped" => vLoop'.stage = "stopped"]_vars

\* a started loop stops with the whole file received
AcquisitionCompletes ==
    (vLoop.stage = "timer") ~> (vLoop.stage = "stopped" /\ AllIndicesReceived)

\* C21: the acquisition loop sends no request and sets no timer once every index
\* is received, and, with fair timers and every chunk that keeps being requested
\* delivered, a started loop eventually stops with every index received.
C21_AcquisitionTerminates ==
    AcquisitionStopsWhenComplete /\ AcquisitionCompletes

\* a started loop whose viewer stored no index outside the file completes
AcquisitionCompletesInRange ==
    (vLoop.stage = "timer")
        ~> \/ vLoop.stage = "stopped" /\ AllIndicesReceived
           \/ ~(vReceived \subseteq 0 .. vMetadata.totalChunks - 1)

\* the loop has stopped with a chunk of the file missing
StoppedIncomplete ==
    vLoop.stage = "stopped" /\ ~AllIndicesReceived

\* after the viewer has left, the loop sets no timer and sends no request
NoBatchAfterLeave ==
    [][vGone.left
          => /\ RequestSent = {}
             /\ vLoop'.stage = "timer" => vLoop.stage = "timer"]_vars

\* after the viewer has left, its tables are empty
TablesEmptyAfterLeave ==
    vGone.left
        => /\ vChunks = <<>>
           /\ vReceived = {}
           /\ vPending = {}
           /\ vPeerChunks = NoPeers

\* C24: after a viewer leaves a stream (VideoFileViewer.destroy, then
\* StreamChannel.destroy) the acquisition loop schedules no further batch and
\* sends no further request, and the chunk table, the received set, the requested
\* set and the peer-availability table are empty and stay empty.
C24_LeaveStopsLoop ==
    NoBatchAfterLeave /\ []TablesEmptyAfterLeave

\* the same for a viewer whose freed channel rejects every send made on it
RequestedSetEmptyAfterLeave ==
    (vGone.left /\ ~vGone.sentFreed) => vPending = {}

\* destroy() itself empties the four tables
DestroyEmptiesTables ==
    [][ViewerLeave
          => /\ vChunks' = <<>> /\ vReceived' = {}
             /\ vPending' = {} /\ vPeerChunks' = NoPeers]_vars

\* C20: the received set and the requested set are disjoint, also when a chunk
\* arrives while the request for its index is being sent.
C20_ReceivedNotPending ==
    vReceived \cap vPending = {}

-----------------------------------------------------------------------------
(* Broadcaster properties *)

\* C12: after prepare the chunk table has ceil(fileSize / 64 KiB) entries, every
\* chunk but the last has 64 KiB, the chunks in index order make up the file,
\* metadata.totalChunks is the table length, and a further prepare gives the same
\* table.
C12_PrepareSlicesFile ==
    bPrepared
        => LET n == Ceil(bFileSize, VIDEO_CHUNK_SIZE) IN
           /\ Len(bChunks) = n
           /\ \A i \in 1 .. n - 1 : ByteLength(bChunks[i]) = VIDEO_CHUNK_SIZE
           /\ \A i \in 1 .. n :
                 /\ ByteLength(bChunks[i]) >= 1
                 /\ ByteLength(bChunks[i]) <= VIDEO_CHUNK_SIZE
                 /\ bChunks[i] = ChunkBytes(i - 1, bFileSize)
           /\ BlobOf(bChunks) = Whole("file", bFileSize)
           /\ bMetadata.totalChunks = n

C12_Witness ==
    /\ scenario = "bcast"
    /\ bPrepared
    /\ bPrepLeft = 0
    /\ bFileSize = ExampleFileKiB * 1024
    /\ Len(bChunks) = 4
    /\ ByteLength(bChunks[4]) = 8 * 1024

\* C14: a startBroadcast call made while a broadcast is running (isStreaming set)
\* sends nothing, leaves currentChunkIndex alone and starts no emission pass.
C14_StartIsIdempotent ==
    [][(bStreaming /\ StartBroadcast)
          => UNCHANGED <<bOut, bEmitted, bIndex, bLoops, bStreaming, bProgress, bChunks,
                         bMetadata>>]_vars

C14_Witness ==
    /\ bLastCall.op = "start"
    /\ bLastCall.streaming
    /\ bLastCall.starts = 2
    /\ bStreaming
    /\ bIndex = 1
    /\ bLoops = [NoLoops EXCEPT !.timer = 1]
    /\ Len(bEmitted) = 2

\* what one pass of a started broadcast hands to the channel, in order
WholePass ==
    <<OutSignal("video-metadata", Len(bChunks), 0, {})>>
        \o [i \in 1 .. Len(bChunks) |-> OutChunk(i - 1, i - 1, ChunkBytes(i - 1, bFileSize))]

IsPrefix(a, b) == Len(a) <= Len(b) /\ \A k \in 1 .. Len(a) : a[k] = b[k]

EmittedInOrder ==
    /\ IsPrefix(bEmitted, WholePass)
    /\ IsPrefix(bProgress, [i \in 1 .. Len(bChunks) |-> <<i, Len(bChunks)>>])
    /\ Len(bProgress) <= Len(bEmitted)
    /\ Len(bProgress) + 2 >= Len(bEmitted)

\* C15: after startBroadcast, and as long as stopBroadcast is not called, what the
\* start and its pass hand to the channel is the metadata once and then the chunks
\* 0, 1, ... each once in increasing order with the chunk index as frame number, and
\* the progress callback reports 1, 2, ... in order.
C15_BroadcastOrder ==
    bLastCall.stops = 0 => EmittedInOrder

\* the same for a broadcaster that was started by a single call
BroadcastOrderSingleStart ==
    (bLastCall.stops = 0 /\ bLastCall.starts <= 1) => EmittedInOrder

SingleStartWholePass ==
    /\ bLastCall.stops = 0
    /\ bLastCall.starts = 1
    /\ Len(bChunks) = MaxChunks
    /\ bEmitted = WholePass
    /\ Len(bProgress) = MaxChunks
    /\ bLoops = NoLoops
    /\ Len(bOut) > Len(bEmitted)

\* C16: once stopBroadcast has returned the emission loop begins no chunk broadcast
\* (isStreaming is clear until a later start); stopBroadcast keeps the chunk table,
\* and a request for an in-range index made after it is still answered with that
\* chunk.
C16_StopHaltsEmission ==
    [][/\ (/\ Len(bEmitted') > Len(bEmitted)
           /\ bEmitted'[Len(bEmitted')].op = "broadcastChunk") => bStreaming
       /\ StopBroadcast
             => (~bStreaming' /\ UNCHANGED <<bChunks, bMetadata, bOut, bEmitted, bLoops>>)
       /\ \A i \in 0 .. Len(bChunks) - 1 :
             (~bStreaming /\ BroadcasterHandleMessage(RequestChunkMsg(PeerB, i)))
                => bOut' = Append(bOut, OutChunk(i, i, ChunkBytes(i, bFileSize)))]_vars

C16_Witness ==
    /\ bLastCall.op = "stop"
    /\ bLastCall.streaming
    /\ bLastCall.evLeft > evLeft
    /\ ~bStreaming
    /\ bLoops = NoLoops
    /\ Len(bChunks) = MaxChunks
    /\ Len(bEmitted) = 2
    /\ bOut = Append(bEmitted, OutChunk(0, 0, ChunkBytes(0, bFileSize)))

LaggedKeepsLoop ==
    [][InboundLagged(FALSE) => (loop'.alive = loop.running /\ loop'.lagged = loop.lagged + 1)]_vars

\* a mediaChunk event whose listeners return leaves the loop as it was
PartKeepsLoop ==
    [][\A seq \in RecvTags : InboundPart(seq, FALSE) => loop'.alive = loop.running]_vars

\* C25: the event-processing loop is ended neither by a transport error on a read,
\* nor by an exception of a listener, nor by a lagged event: as long as the channel
\* was not explicitly stopped the loop is alive and reads the next event.
C25_LoopSurvivesErrors ==
    [](loop.running => loop.alive)

\* a tag outside the packing range: below zero
Malformed(sequence) == sequence < 0

\* no Pending Frame is kept under a frame number decoded from a tag below zero
NoPendingForMalformed ==
    \A fn \in DOMAIN pendingChunks : fn >= 0

\* C26: a chunk event whose sequence tag is outside the packing range (a negative
\* tag) is dropped where it is detected: nothing is dispatched to the listeners for
\* it and no Pending Frame is created for it.
C26_MalformedTagDropped ==
    /\ \A k \in DOMAIN dispatched : ~Malformed(dispatched[k].sequence)
    /\ NoPendingForMalformed

\* ---- the viewer as a secondary source ----

\* the frame numbers the broadcaster of the file uses: the chunk indices
BroadcasterFrames == IF vMetadata.known THEN 0 .. vMetadata.totalChunks - 1 ELSE {}

\* a request for index i is answered iff chunk i is held, with the stored bytes,
\* under frame number i + RELAY_OFFSET
RelayIffHeld ==
    [][(vLast'.type = "video-request-chunk" /\ evLeft' # evLeft)
          => \A i \in 0 .. MaxChunks :
                ViewerHandleMessage(RequestChunkMsg(PeerB, i))
                   => IF i \in DOMAIN vChunks
                      THEN vOut' = Append(vOut, OutChunk(i + RELAY_OFFSET, i, vChunks[i]))
                      ELSE UNCHANGED vOut]_vars

\* the frame number of a relay is not the one the broadcaster uses for that index
RelayFrameNotOfSameIndex ==
    \A k \in DOMAIN vOut :
        vOut[k].type = "video-chunk" => vOut[k].sequence # vOut[k].chunkIndex

\* the frame number of a relay is none of the broadcaster's
RelayFrameNotOfBroadcaster ==
    \A k \in DOMAIN vOut :
        vOut[k].type = "video-chunk" => vOut[k].sequence \notin BroadcasterFrames

\* the same, for files of at most RELAY_OFFSET chunks
RelayFrameNotOfSmallFile ==
    vMetadata.totalChunks <= RELAY_OFFSET => RelayFrameNotOfBroadcaster

\* C27: on a video-request-chunk for index i the viewer relays chunk i iff it holds
\* it, through the fragmenting send path with frame number i + 100000 and the bytes
\* it stored; that frame number is never one the broadcaster uses (0 ..
\* totalChunks-1); a request for an index not held transmits nothing.
C27_ViewerRelay ==
    RelayIffHeld /\ []RelayFrameNotOfBroadcaster

\* ---- the multi-part send ----

\* the number of parts of a payload of len bytes
PartsOf(len) == (len + MAX_CHUNK_SIZE - 1) \div MAX_CHUNK_SIZE

\* C28: for a payload of L bytes split into n parts, broadcastChunk transmits part i
\* with tag frameNumber*10000 + i + n*100 and the bytes [i*MAX, min((i+1)*MAX, L)),
\* in increasing i and one after the other, and has returned exactly when all n
\* parts were sent; 130 KiB with frame number 7 gives the tags 70300, 70301, 70302.
C28_MultiPartSend ==
    (sendPhase # "idle" /\ sendData > MAX_CHUNK_SIZE) =>
        LET n == PartsOf(sendData)
        IN /\ Len(sentLog) <= n
           /\ \A k \in DOMAIN sentLog :
                 /\ sentLog[k].sequence = sendSeq * 10000 + (k - 1) + n * 100
                 /\ sentLog[k].data =
                       <<[p |-> sendPid, lo |-> (k - 1) * MAX_CHUNK_SIZE,
                          hi |-> IF k * MAX_CHUNK_SIZE <= sendData
                                 THEN k * MAX_CHUNK_SIZE ELSE sendData]>>
           /\ sendI = Len(sentLog)
           /\ (sendPhase = "returned") <=> (Len(sentLog) = n)
           /\ (sendPhase = "returned" /\ sendData = 130 * 1024 /\ sendSeq = 7)
                 => [k \in DOMAIN sentLog |-> sentLog[k].sequence] = <<70300, 70301, 70302>>

C28_Witness ==
    /\ sendPhase = "returned"
    /\ sendData = 130 * 1024
    /\ sendSeq = 7
    /\ [k \in DOMAIN sentLog |-> sentLog[k].sequence] = <<70300, 70301, 70302>>
    /\ sentLog[3].data = <<[p |-> sendPid, lo |-> 2 * MAX_CHUNK_SIZE, hi |-> 130 * 1024]>>

\* ---- the staleness sweep ----

\* no Pending Frame of the table pc is older than the window at time clock
NoneStale(pc, clock) == \A fn \in DOMAIN pc : clock - pc[fn].timestamp <= STALE_MS

\* the step hands a reassembled multi-part frame to the listeners
Reassembled ==
    Len(dispatched') > Len(dispatched) /\ dispatched'[Len(dispatched')].multi

\* after a part that completes a frame no Pending Frame is older than the window
SweepOnReassembly ==
    [][Reassembled => NoneStale(pendingChunks', now')]_vars

\* C29: on every inbound part, completing a frame or not, every Pending Frame older
\* than 5 seconds is removed, so after any part is processed the table holds no
\* entry older than the window.
C29_SweepOnEveryPart ==
    [][(evLeft' # evLeft /\ \E seq \in RecvTags, throws \in BOOLEAN : InboundPart(seq, throws))
          => NoneStale(pendingChunks', now')]_vars

\* ---- the declared part count ----

\* the recorded part count of a Pending Frame that stays in the table is not lowered
PartCountNotLowered ==
    [][\A fn \in DOMAIN pendingChunks \cap DOMAIN pendingChunks' :
          pendingChunks'[fn].totalParts >= pendingChunks[fn].totalParts]_vars

\* a frame is reassembled from no fewer parts than were recorded for it
AssembledFromRecordedCount ==
    [][Reassembled =>
          LET seq == dispatched'[Len(dispatched')].sequence
              fn == FrameNumberOf(seq)
          IN fn \in DOMAIN pendingChunks
                => TotalPartsOf(seq) >= pendingChunks[fn].totalParts]_vars

\* the recorded part count of a Pending Frame is raised by a part that declares more
PartCountRaised ==
    [][\A seq \in RecvTags :
          (/\ evLeft' # evLeft
           /\ InboundPart(seq, FALSE)
           /\ FrameNumberOf(seq) \in DOMAIN pendingChunks \cap DOMAIN pendingChunks')
             => pendingChunks'[FrameNumberOf(seq)].totalParts >= TotalPartsOf(seq)]_vars

\* C30: a Pending Frame's totalParts is the maximum declared by any part observed for
\* the frame: a later part declaring a lower count never lowers it, so a frame is
\* never assembled from fewer parts than the highest count declared.
C30_PartCountIsMaximum ==
    PartCountNotLowered /\ AssembledFromRecordedCount

\* ---- a missing part at assembly ----

\* C31: when, with an inbound part stored, the number of stored parts of its frame
\* reaches the recorded part count but some index in 0 .. totalParts-1 is absent,
\* nothing is dispatched, the frame's Pending Frame is removed, the loop goes on
\* unless it was stopped (no exception), and the Pending Frames of all other frame
\* numbers are unchanged.
C31_MissingPartDropsFrame ==
    [][\A seq \in RecvTags :
          (/\ evLeft' # evLeft
           /\ ~(TotalPartsOf(seq) <= 1 /\ PartNumberOf(seq) = 0)
           /\ \E throws \in BOOLEAN : InboundPart(seq, throws))
             => LET fn == FrameNumberOf(seq)
                    stored == (IF fn \in DOMAIN pendingChunks
                               THEN DOMAIN pendingChunks[fn].chunks ELSE {})
                                 \cup {PartNumberOf(seq)}
                    tp == IF TotalPartsOf(seq) > 0 THEN TotalPartsOf(seq)
                          ELSE IF fn \in DOMAIN pendingChunks
                               THEN pendingChunks[fn].totalParts
                               ELSE IF TotalPartsOf(seq) = 0 THEN 1 ELSE TotalPartsOf(seq)
                IN (/\ Cardinality(stored) >= tp
                    /\ \E i \in 0 .. tp - 1 : i \notin stored)
                      => /\ dispatched' = dispatched
                         /\ loop'.alive = loop.running
                         /\ DOMAIN pendingChunks' = DOMAIN pendingChunks \ {fn}
                         /\ \A g \in DOMAIN pendingChunks' :
                               pendingChunks'[g] = pendingChunks[g]]_vars

\* frame 8's first part, then a part of frame 7 that is dropped, then frame 8's
\* second part: frame 8 is reassembled from its two parts
C31_Witness ==
    /\ scenario = "recv"
    /\ evLeft = MaxRecvEvents - 3
    /\ now = StartMs
    /\ loop = Listening
    /\ pendingChunks = NoPending
    /\ Len(dispatched) = 1
    /\ dispatched[1].sequence = PartSeq(FirstFrame + 1, 1, 2)
    /\ dispatched[1].data = Concat(Whole(MaxRecvEvents, MAX_CHUNK_SIZE),
                                   Whole(MaxRecvEvents - 2, MAX_CHUNK_SIZE))

\* ---- the request batch ----

\* the requested set at the moment the next index is chosen: a resumed run has added
\* the index whose send it awaited
RequestedSetNow == IF vLoop.stage = "send" THEN vPending \cup {vLoop.i} ELSE vPending

\* the indices of the file neither received nor requested at that moment
Wanted == {x \in 0 .. vMetadata.totalChunks - 1 : x \notin vReceived /\ x \notin RequestedSetNow}

\* C32: a run of the request batch sends at most 5 video-request-chunk messages, in
\* increasing order of index, and each index it requests is the lowest of the
\* chunks neither received nor in the requested set at the moment it is chosen.
C32_BatchLowestFive ==
    [][\A j \in RequestSent :
          /\ j \in Wanted
          /\ \A x \in Wanted : j <= x
          /\ vLoop'.stage = "send" /\ vLoop'.i = j
          /\ vLoop'.requested < 5
          /\ vLoop.stage = "send" => (j > vLoop.i /\ vLoop'.requested = vLoop.requested + 1)
          /\ vLoop.stage # "send" => vLoop'.requested = 0]_vars

\* metadata of a 7-chunk file, chunk 1 received, one run of the batch ended: it asked
\* for 0, 2, 3, 4, 5 and not for 6
C32_Witness ==
    /\ scenario = "batch"
    /\ vMetadata.totalChunks = BatchChunks
    /\ vReceived = {1}
    /\ vLoop.stage = "timer"
    /\ vBatchesLeft = MaxBatches - 1
    /\ vPending = {0, 2, 3, 4, 5}
    /\ [k \in DOMAIN vOut |-> vOut[k].chunkIndex] = <<0, 2, 3, 4, 5>>
    /\ \A k \in DOMAIN vOut : vOut[k].type = "video-request-chunk"

\* ---- the handling of an offer ----

Range(s) == {s[k] : k \in DOMAIN s}

\* an offer that is from self or names another peer changes nothing; any other
\* offer creates a viewer handle for its sender and puts it in the peer table
OfferCreatesHandle ==
    [][(lastSig'.type = "webrtc-offer" /\ evLeft' # evLeft /\ liveChannel)
          => \A sig \in SignalsIn :
                (sig.type = "webrtc-offer" /\ ReceiveSignal(sig))
                   => IF sig.from = Me \/ (sig.to # "" /\ sig.to # Me)
                      THEN UNCHANGED <<peerConnections, handles, tasks, sigOut>>
                      ELSE /\ handles' = Append(handles, NewHandle(sig.from, "viewer"))
                           /\ peerConnections'[sig.from] = Len(handles')
                           /\ sigOut' = sigOut]_vars

\* the handler invocations for an offer that apply a queued candidate in this step
Draining == {t \in tasks' \ tasks : t.kind = "offer" /\ t.stage = "addIceCandidate"}

\* a drain step applies the next candidate of the queue to the handle of the offer,
\* whose remote description is set, after the queued candidates before it
DrainInQueueOrder ==
    [][\A t \in Draining :
          /\ handles'[t.pc].remoteDescription
          /\ handles'[t.pc].peer = t.from
          /\ handles'[t.pc].applied = Append(handles[t.pc].applied, arrays[t.arr][t.idx])
          /\ \A k \in 1 .. t.idx - 1 : arrays[t.arr][k] \in Range(handles[t.pc].applied)]_vars

\* the handler invocations for an offer that send their answer in this step
Answering ==
    IF Len(sigOut') > Len(sigOut) /\ sigOut'[Len(sigOut')].type = "webrtc-answer"
    THEN {t \in tasks \ tasks' : t.kind = "offer" /\ t.stage = "createAnswer"}
    ELSE {}

\* an answer is sent by the handler of an offer, to the sender of the offer, for a
\* handle whose remote description is set
AnswerToOfferer ==
    [][(Len(sigOut') > Len(sigOut) /\ sigOut'[Len(sigOut')].type = "webrtc-answer")
          => /\ Answering # {}
             /\ \A t \in Answering :
                   /\ sigOut'[Len(sigOut')].to = t.from
                   /\ handles[t.pc].role = "viewer"
                   /\ handles[t.pc].remoteDescription]_vars

\* the queue is drained before the answer is sent
DrainThenAnswer ==
    [][/\ \A t \in Draining : ~handles[t.pc].localDescription
       /\ \A t \in Answering :
             t.arr # 0 => Range(arrays[t.arr]) \subseteq Range(handles[t.pc].applied)]_vars

\* the answer is sent before the queue is drained
AnswerThenDrain ==
    [][\A t \in Draining : handles[t.pc].localDescription]_vars

\* C33 (as stated): on an offer from P, not from self and not addressed to another
\* peer, a handle is created for P, the remote offer is applied, an answer is sent
\* to P, and only then are the candidates queued for P drained, in arrival order;
\* an offer from self or naming another peer creates no handle and sends nothing.
C33_OfferAnswerThenDrain ==
    OfferCreatesHandle /\ AnswerToOfferer /\ DrainInQueueOrder /\ AnswerThenDrain

\* C33 (amended): the same, with the candidates queued for P drained, in arrival
\* order, after the remote offer is applied and before the answer is produced and
\* sent to P.
C33_OfferDrainThenAnswer ==
    OfferCreatesHandle /\ AnswerToOfferer /\ DrainInQueueOrder /\ DrainThenAnswer

\* two candidates of P were queued, then P's offer was handled to its end
C33_Witness ==
    /\ scenario = "liveIce"
    /\ Len(handles) = 1
    /\ handles[1].role = "viewer"
    /\ handles[1].peer = PeerB
    /\ handles[1].remoteDescription /\ handles[1].localDescription
    /\ arrays = <<<<1, 2>>>>
    /\ handles[1].applied = <<1, 2>>
    /\ sigOut = <<[type |-> "webrtc-answer", to |-> PeerB]>>
    /\ tasks = {}

\* ---- a send that the transport rejects ----

\* the parts 0 .. k-1 of the payload of the current call, as transmitted
PartsSent(k) ==
    [i \in 1 .. k |->
        Transmission(sendSeq * TAG_BASE + (i - 1) + PartsOf(sendData) * PART_BASE,
                     <<[p |-> sendPid, lo |-> (i - 1) * MAX_CHUNK_SIZE,
                        hi |-> IF i * MAX_CHUNK_SIZE <= sendData
                               THEN i * MAX_CHUNK_SIZE ELSE sendData]>>)]

\* the rejection of a send changes neither what was transmitted nor the receive side
RejectionChangesNothing ==
    [][(sendPhase = "sending" /\ sendPhase' = "rejected")
          => UNCHANGED <<sentLog, net, pendingChunks, dispatched, loop, sendI>>]_vars

\* a rejected call does not go on: the next transmission is that of a new call
RejectedCallStops ==
    [][sendPhase = "rejected"
          => /\ sendPhase' \in {"rejected", "sending"}
             /\ sentLog' # sentLog => sendPid' # sendPid
             /\ sendPhase' = "sending" => sendPid' # sendPid]_vars

\* C34: when the transport rejects the k-th part of a multi-part frame, the call of
\* broadcastChunk ends with that failure (it has not returned), the parts 0 .. k-1
\* stay transmitted, no later part is transmitted, and the reassembly table and
\* the listening state are left as they were.
C34_PartialSend ==
    /\ RejectionChangesNothing
    /\ RejectedCallStops
    /\ []((sendPhase = "rejected" /\ sendData > MAX_CHUNK_SIZE)
             => /\ sendI < PartsOf(sendData)
                /\ sentLog = PartsSent(sendI))
    /\ []((scenario = "fragFail" /\ sendPhase = "returned" /\ sendData > MAX_CHUNK_SIZE)
             => sentLog = PartsSent(PartsOf(sendData)))

\* the second of the three parts of a 130 KiB payload is rejected after the first
\* part was transmitted and received
C34_Witness ==
    /\ sendPhase = "rejected"
    /\ sendData = 130 * 1024
    /\ sendI = 1
    /\ Len(sentLog) = 1
    /\ sentLog[1].sequence = PartSeq(sendSeq, 0, 3)
    /\ net = <<>>
    /\ sendSeq \in DOMAIN pendingChunks
    /\ DOMAIN pendingChunks[sendSeq].chunks = {0}

\* ---- the senders of the parts of a frame ----

\* the peers whose bytes are in a buffer (of the scenario that names payloads
\* after their senders)
SendersIn(data) == {data[k].p[1] : k \in DOMAIN data}

\* C35: every payload the reassembler dispatches is built from parts of one sender
\* only; parts that two senders sent under the same frame number are never
\* combined into one payload.
C35_SenderSeparation ==
    \A k \in DOMAIN dispatched : Cardinality(SendersIn(dispatched[k].data)) <= 1

\* ---- the handles of a peer ----

\* the handles of peer p that are not closed
OpenHandles(p) == {h \in 1 .. Len(handles) : handles[h].peer = p /\ ~handles[h].closed}

\* at most one handle per peer is not closed
OneOpenHandle == \A p \in RemotePeers : Cardinality(OpenHandles(p)) <= 1

\* once the stop routine has run, every handle ever created is closed
AllClosedAfterStop == session.stops > 0 => \A p \in RemotePeers : OpenHandles(p) = {}

\* the handle the peer table holds for a peer is the last one created for it
TableHoldsLatest ==
    \A p \in DOMAIN peerConnections :
        /\ handles[peerConnections[p]].peer = p
        /\ \A h \in 1 .. Len(handles) : handles[h].peer = p => h <= peerConnections[p]

\* C36: at any time at most one un-closed connection handle exists per remote peer
\* (a repeated request-offer or offer closes or reuses the earlier handle), so that
\* every handle ever created is closed once the session teardown has run.
C36_OneHandlePerPeer ==
    OneOpenHandle /\ AllClosedAfterStop

\* ---- the emission loop ----

\* the emission loops: the startBroadcast invocations about to call broadcastNext
\* and the broadcastNext invocations suspended in a send or scheduled by a timer
LoopsRunning == bLoops.metadata + bLoops.sending + bLoops.timer

\* a broadcaster on which startBroadcast was called once has at most one loop
SingleLoopSingleStart == bLastCall.starts <= 1 => LoopsRunning <= 1

\* C37: under any sequence of startBroadcast calls, stopBroadcast calls and timer
\* firings at most one emission loop advances currentChunkIndex at a time.
C37_SingleEmissionLoop == LoopsRunning <= 1

\* ---- completion and the order of metadata and chunks ----

\* the viewer knows the metadata of a file of at least one chunk and holds every chunk
HoldsWholeFile ==
    /\ vMetadata.known
    /\ vMetadata.totalChunks >= 1
    /\ \A i \in 0 .. vMetadata.totalChunks - 1 : i \in DOMAIN vChunks

\* assembleAndPlay was called for the whole file
FullAssemblyMade ==
    \E k \in DOMAIN vAssemblies :
        /\ vAssemblies[k].count = vMetadata.totalChunks
        /\ vAssemblies[k].parts = vMetadata.totalChunks

\* C38: for every interleaving of the metadata message and the chunk messages,
\* chunks before metadata included, once the viewer (with a video element) knows
\* the metadata and holds all chunks 0 .. totalChunks-1 a full-assembly playback
\* attempt has been made.
C38_CompletionAnyOrder ==
    (vVideoElement /\ ~vGone.left /\ HoldsWholeFile) => FullAssemblyMade

\* the same when the metadata was learned while a chunk of the file was missing
CompletionWhenMetadataFirst ==
    (vVideoElement /\ ~vGone.left /\ HoldsWholeFile /\ vHeldAtMeta < vMetadata.totalChunks)
        => FullAssemblyMade

\* ---- completion and chunk indices outside the file ----

\* the received count is within the file and the percentage is at most 100
CountWithinFile ==
    vMetadata.known
        => /\ GetProgress.received <= vMetadata.totalChunks
           /\ GetProgress.percentOf * 100 <= 100 * GetProgress.percentBy

\* a loop that has stopped by itself holds every index of the file
StoppedHoldsAll ==
    (vLoop.stage = "stopped" /\ ~vGone.left)
        => \A i \in 0 .. vMetadata.totalChunks - 1 : i \in DOMAIN vChunks

\* C39: whenever metadata is known the viewer's received count never exceeds
\* totalChunks (getProgress percent <= 100), and the acquisition loop stops only
\* in a state where every index 0 .. totalChunks-1 is held, also when video-chunk
\* messages with an index outside 0 .. totalChunks-1 are received.
C39_CompletionMeansAllIndices ==
    CountWithinFile /\ StoppedHoldsAll

\* both hold as long as no index outside the file was stored
WithinFileWhenInRange ==
    (vMetadata.known /\ vReceived \subseteq 0 .. vMetadata.totalChunks - 1)
        => CountWithinFile /\ StoppedHoldsAll

\* ---- the streaming node under concurrent callers ----

\* cleanup() has not been called
NoCleanupYet == scenario = "node" /\ cleanupsLeft = MaxCleanups

\* the callers whose getStreamingNode has returned a node
Served == {c \in NodeCallers : callers[c].stage = "done"}

\* C40: for any interleaving of concurrent getStreamingNode / getEndpointId /
\* createStream / joinStream calls made before the first spawn completes,
\* StreamingNode.spawn is invoked at most once until cleanup() runs, and every
\* caller receives the same node.
C40_SingleNode ==
    NoCleanupYet
        => /\ spawned <= 1
           /\ \A c, d \in Served : callers[c].node = callers[d].node

\* a call made when the module holds a node returns that node and spawns nothing
CallAfterSpawnReturnsNode ==
    [][\A c \in NodeCallers :
          (/\ callers[c].stage = "idle"
           /\ callers'[c].stage # "idle"
           /\ streamingNode # NoNode)
              => /\ callers'[c].stage = "done"
                 /\ callers'[c].node = streamingNode
                 /\ spawned' = spawned]_vars

\* every node a caller was given came from one invocation of spawn
ServedNodeWasSpawned ==
    \A c \in Served : callers[c].node \in 1 .. spawned

=========================================================================
